---- MODULE Spec2Model ----
(***************************************************************************)
(* A model of the survey-feedback cleaning script                          *)
(* scripts/process-survey-feedback/process_survey_feedback.py:             *)
(* the URL normalizer, the nginx redirect-rule parser, the mapping applier *)
(* and the pipeline of main().                                             *)
(*                                                                         *)
(* Python strings are sequences of one-character strings.  A spreadsheet   *)
(* cell or a function result is a record [t, s]: t = "str" with the        *)
(* characters in s, t = "none" for None / a missing cell, t = "num" for a  *)
(* cell that holds a number (any non-string object).                       *)
(***************************************************************************)
EXTENDS Naturals, Sequences, FiniteSets, TLC

\* ------------------------------------------------------------------------
\* Bounds of the model
\* ------------------------------------------------------------------------
MaxBody == 3

\* ------------------------------------------------------------------------
\* Python values
\* ------------------------------------------------------------------------
Str(chars) == [t |-> "str", s |-> chars]

None == [t |-> "none", s |-> <<>>]

NumCell == [t |-> "num", s |-> <<>>]

isinstance_str(v) == v.t = "str"

\* Python truthiness of a str-or-None value (the `x or y`, `if x and y` tests)
Truthy(v) == v.t = "str" /\ v.s # <<>>

\* ------------------------------------------------------------------------
\* Character classes and basic string operations
\* ------------------------------------------------------------------------
LowerLetters == {"a", "b", "c", "d", "e", "f", "g", "h", "i", "j", "k", "l", "m",
                 "n", "o", "p", "q", "r", "s", "t", "u", "v", "w", "x", "y", "z"}

UpperLetters == {"A", "B", "C", "D", "E", "F", "G", "H", "I", "J", "K", "L", "M",
                 "N", "O", "P", "Q", "R", "S", "T", "U", "V", "W", "X", "Y", "Z"}

Digits == {"0", "1", "2", "3", "4", "5", "6", "7", "8", "9"}

\* str.strip() with no argument removes whitespace
Whitespace == {" ", "\t", "\n", "\r"}

\* urllib.parse.scheme_chars
scheme_chars == LowerLetters \cup UpperLetters \cup Digits \cup {"+", "-", "."}

\* the class [A-Za-z0-9_] of the nginx-variable pattern
VarChars == LowerLetters \cup UpperLetters \cup Digits \cup {"_"}

Min(S) == CHOOSE x \in S : \A y \in S : x <= y

Max(S) == CHOOSE x \in S : \A y \in S : x >= y

Last(s) == s[Len(s)]

\* s[from:] with a 1-based first index
From(s, from) == SubSeq(s, from, Len(s))

\* str.find(c, start): least index >= start holding c, 0 when there is none
Find(s, c, start) ==
    LET I == {i \in start..Len(s) : s[i] = c}
    IN  IF I = {} THEN 0 ELSE Min(I)

startswith(s, p) == Len(p) <= Len(s) /\ SubSeq(s, 1, Len(p)) = p

endswith(s, p) == Len(p) <= Len(s) /\ SubSeq(s, Len(s) - Len(p) + 1, Len(s)) = p

\* `sub in s`
Contains(s, sub) == \E i \in 1..(Len(s) - Len(sub) + 1) : SubSeq(s, i, i + Len(sub) - 1) = sub

\* str.strip()
strip(s) ==
    LET I == {i \in 1..Len(s) : s[i] \notin Whitespace}
    IN  IF I = {} THEN <<>> ELSE SubSeq(s, Min(I), Max(I))

\* str.lstrip(chars)
lstrip(s, chars) ==
    LET I == {i \in 1..Len(s) : s[i] \notin chars}
    IN  IF I = {} THEN <<>> ELSE SubSeq(s, Min(I), Len(s))

\* str.strip(chars)
stripChars(s, chars) ==
    LET I == {i \in 1..Len(s) : s[i] \notin chars}
    IN  IF I = {} THEN <<>> ELSE SubSeq(s, Min(I), Max(I))

\* removal of every character of a set (str.replace(b, "") for each b)
RemoveChars(s, chars) == SelectSeq(s, LAMBDA c : c \notin chars)

\* str.replace(old, new, 1): the leftmost occurrence only
RECURSIVE ReplaceFirst(_, _, _)
ReplaceFirst(s, old, new) ==
    IF Len(s) < Len(old) THEN s
    ELSE IF startswith(s, old) THEN new \o From(s, Len(old) + 1)
    ELSE <<Head(s)>> \o ReplaceFirst(Tail(s), old, new)

\* str.replace(old, new): every non-overlapping occurrence, left to right
RECURSIVE ReplaceAll(_, _, _)
ReplaceAll(s, old, new) ==
    IF Len(s) < Len(old) \/ old = <<>> THEN s
    ELSE IF startswith(s, old) THEN new \o ReplaceAll(From(s, Len(old) + 1), old, new)
    ELSE <<Head(s)>> \o ReplaceAll(Tail(s), old, new)

\* re.sub(r"/{2,}", "/", s)
RECURSIVE CollapseSlashes(_)
CollapseSlashes(s) ==
    IF Len(s) < 2 THEN s
    ELSE IF s[1] = "/" /\ s[2] = "/" THEN CollapseSlashes(Tail(s))
    ELSE <<Head(s)>> \o CollapseSlashes(Tail(s))

\* re.sub(r"\$[A-Za-z0-9_]+", "", s): a '$' and the longest run of name
\* characters after it, when that run is not empty
RECURSIVE RemoveDollarNames(_)
RemoveDollarNames(s) ==
    IF s = <<>> THEN <<>>
    ELSE IF s[1] = "$" /\ Len(s) >= 2 /\ s[2] \in VarChars
         THEN RemoveDollarNames(lstrip(Tail(s), VarChars))
         ELSE <<Head(s)>> \o RemoveDollarNames(Tail(s))

IsArgsToken == <<"$", "i", "s", "_", "a", "r", "g", "s", "$", "a", "r", "g", "s">>

\* the two substitutions that remove nginx variables, in the code's order
RemoveNginxVars(s) == RemoveDollarNames(ReplaceAll(s, IsArgsToken, <<>>))

\* re.sub(r"^(https?:)/*", r"\1//", u)
FixSchemeSlashes(u) ==
    LET https == <<"h", "t", "t", "p", "s", ":">>
        http == <<"h", "t", "t", "p", ":">>
    IN  IF startswith(u, https) THEN https \o <<"/", "/">> \o lstrip(From(u, 7), {"/"})
        ELSE IF startswith(u, http) THEN http \o <<"/", "/">> \o lstrip(From(u, 6), {"/"})
        ELSE u

\* ------------------------------------------------------------------------
\* urllib.parse as the script calls it.  Each stage of a library function is
\* an operator of its own that takes the values of the earlier stages as
\* arguments.
\* ------------------------------------------------------------------------
uses_relative ==
    {<<>>, <<"f", "t", "p">>, <<"h", "t", "t", "p">>, <<"g", "o", "p", "h", "e", "r">>,
     <<"n", "n", "t", "p">>, <<"i", "m", "a", "p">>, <<"w", "a", "i", "s">>,
     <<"f", "i", "l", "e">>, <<"h", "t", "t", "p", "s">>, <<"s", "h", "t", "t", "p">>,
     <<"m", "m", "s">>, <<"p", "r", "o", "s", "p", "e", "r", "o">>, <<"r", "t", "s", "p">>,
     <<"r", "t", "s", "p", "s">>, <<"r", "t", "s", "p", "u">>, <<"s", "f", "t", "p">>,
     <<"s", "v", "n">>, <<"s", "v", "n", "+", "s", "s", "h">>, <<"w", "s">>,
     <<"w", "s", "s">>}

uses_netloc ==
    {<<>>, <<"f", "t", "p">>, <<"h", "t", "t", "p">>, <<"g", "o", "p", "h", "e", "r">>,
     <<"n", "n", "t", "p">>, <<"t", "e", "l", "n", "e", "t">>, <<"i", "m", "a", "p">>,
     <<"w", "a", "i", "s">>, <<"f", "i", "l", "e">>, <<"m", "m", "s">>,
     <<"h", "t", "t", "p", "s">>, <<"s", "h", "t", "t", "p">>, <<"s", "n", "e", "w", "s">>,
     <<"p", "r", "o", "s", "p", "e", "r", "o">>, <<"r", "t", "s", "p">>,
     <<"r", "t", "s", "p", "s">>, <<"r", "t", "s", "p", "u">>, <<"r", "s", "y", "n", "c">>,
     <<"s", "v", "n">>, <<"s", "v", "n", "+", "s", "s", "h">>, <<"s", "f", "t", "p">>,
     <<"n", "f", "s">>, <<"g", "i", "t">>, <<"g", "i", "t", "+", "s", "s", "h">>,
     <<"w", "s">>, <<"w", "s", "s">>}

UpperSeq == <<"A", "B", "C", "D", "E", "F", "G", "H", "I", "J", "K", "L", "M",
              "N", "O", "P", "Q", "R", "S", "T", "U", "V", "W", "X", "Y", "Z">>

LowerSeq == <<"a", "b", "c", "d", "e", "f", "g", "h", "i", "j", "k", "l", "m",
              "n", "o", "p", "q", "r", "s", "t", "u", "v", "w", "x", "y", "z">>

\* str.lower() on the characters of a scheme
LowerChar(c) ==
    IF c \in UpperLetters THEN LowerSeq[CHOOSE k \in DOMAIN UpperSeq : UpperSeq[k] = c] ELSE c

lower(s) == [k \in 1..Len(s) |-> LowerChar(s[k])]

\* urlsplit: `i > 0 and url[0].isascii() and url[0].isalpha()` and the loop
\* over url[:i]
HasScheme(url) ==
    LET colon == Find(url, ":", 1)
    IN  /\ colon > 1
        /\ url[1] \in LowerLetters \cup UpperLetters
        /\ \A k \in 1..(colon - 1) : url[k] \in scheme_chars

SchemeOf(url, default) ==
    IF HasScheme(url) THEN lower(SubSeq(url, 1, Find(url, ":", 1) - 1)) ELSE default

AfterScheme(url) == IF HasScheme(url) THEN From(url, Find(url, ":", 1) + 1) ELSE url

\* urlsplit: url[:2] == '//'
HasNetloc(url) == Len(url) >= 2 /\ url[1] = "/" /\ url[2] = "/"

\* _splitnetloc: the first of '/', '?', '#' after the two slashes
NetlocEnd(url) ==
    LET D == {k \in 3..Len(url) : url[k] \in {"/", "?", "#"}}
    IN  IF D = {} THEN Len(url) + 1 ELSE Min(D)

NetlocOf(url) == IF HasNetloc(url) THEN SubSeq(url, 3, NetlocEnd(url) - 1) ELSE <<>>

AfterNetloc(url) == IF HasNetloc(url) THEN From(url, NetlocEnd(url)) ELSE url

\* url.split(c, 1) when c is in url: the part before and the part after
Before(url, c) == IF Find(url, c, 1) > 0 THEN SubSeq(url, 1, Find(url, c, 1) - 1) ELSE url

After(url, c) == IF Find(url, c, 1) > 0 THEN From(url, Find(url, c, 1) + 1) ELSE <<>>

SplitQuery(scheme, netloc, url, fragment) ==
    [scheme |-> scheme, netloc |-> netloc, path |-> Before(url, "?"),
     query |-> After(url, "?"), fragment |-> fragment]

SplitFragment(scheme, netloc, url) ==
    SplitQuery(scheme, netloc, Before(url, "#"), After(url, "#"))

SplitNetloc(scheme, url) == SplitFragment(scheme, NetlocOf(url), AfterNetloc(url))

SplitScheme(url, default) == SplitNetloc(SchemeOf(url, default), AfterScheme(url))

\* urlsplit(url, scheme=default): the five components.  The inputs of the
\* model hold no '[' or ']', so the bracket checks of the library never raise.
urlsplit(url, default) ==
    SplitScheme(RemoveChars(lstrip(url, Whitespace), {"\t", "\r", "\n"}), default)

WithNetloc(scheme, netloc, path) ==
    IF netloc # <<>> \/
       (scheme # <<>> /\ scheme \in uses_netloc /\ ~startswith(path, <<"/", "/">>))
    THEN <<"/", "/">> \o netloc \o
         (IF path # <<>> /\ path[1] # "/" THEN <<"/">> \o path ELSE path)
    ELSE path

WithScheme(scheme, url) == IF scheme # <<>> THEN scheme \o <<":">> \o url ELSE url

WithSuffix(url, mark, part) == IF part # <<>> THEN url \o <<mark>> \o part ELSE url

\* urlunsplit((scheme, netloc, path, query, fragment))
urlunsplit(scheme, netloc, path, query, fragment) ==
    WithSuffix(WithSuffix(WithScheme(scheme, WithNetloc(scheme, netloc, path)), "?", query),
               "#", fragment)

\* str.split('/')
RECURSIVE SplitSlash(_)
SplitSlash(s) ==
    IF Find(s, "/", 1) = 0 THEN <<s>>
    ELSE <<SubSeq(s, 1, Find(s, "/", 1) - 1)>> \o SplitSlash(From(s, Find(s, "/", 1) + 1))

\* '/'.join(parts)
RECURSIVE JoinSlash(_)
JoinSlash(parts) ==
    IF parts = <<>> THEN <<>>
    ELSE IF Len(parts) = 1 THEN parts[1]
    ELSE parts[1] \o <<"/">> \o JoinSlash(Tail(parts))

\* the loop of urljoin that resolves '.' and '..' segments
RECURSIVE ResolveDots(_, _)
ResolveDots(segments, resolved) ==
    IF segments = <<>> THEN resolved
    ELSE IF Head(segments) = <<".", ".">>
         THEN ResolveDots(Tail(segments),
                          IF resolved = <<>> THEN <<>> ELSE SubSeq(resolved, 1, Len(resolved) - 1))
    ELSE IF Head(segments) = <<".">> THEN ResolveDots(Tail(segments), resolved)
    ELSE ResolveDots(Tail(segments), Append(resolved, Head(segments)))

\* urljoin: base_parts, without a last item that is not a directory
DropFile(parts) == IF Last(parts) # <<>> THEN SubSeq(parts, 1, Len(parts) - 1) ELSE parts

\* urljoin: segments[1:-1] = filter(None, segments[1:-1])
FilterMiddle(segs) ==
    IF Len(segs) <= 2 THEN segs
    ELSE <<Head(segs)>> \o SelectSeq(SubSeq(segs, 2, Len(segs) - 1), LAMBDA g : g # <<>>)
         \o <<Last(segs)>>

Segments(bpath, path) ==
    IF path[1] = "/" THEN SplitSlash(path)
    ELSE FilterMiddle(DropFile(SplitSlash(bpath)) \o SplitSlash(path))

ResolvedPath(segments) ==
    IF Last(segments) \in {<<".">>, <<".", ".">>}
    THEN Append(ResolveDots(segments, <<>>), <<>>)
    ELSE ResolveDots(segments, <<>>)

PathOrRoot(joined) == IF joined = <<>> THEN <<"/">> ELSE joined

\* urljoin after the scheme and netloc tests: the path of the base is used
JoinRelative(b, p, netloc) ==
    IF p.path = <<>>
    THEN urlunsplit(p.scheme, netloc, b.path,
                    IF p.query = <<>> THEN b.query ELSE p.query, p.fragment)
    ELSE urlunsplit(p.scheme, netloc,
                    PathOrRoot(JoinSlash(ResolvedPath(Segments(b.path, p.path)))),
                    p.query, p.fragment)

JoinSplit(b, p, url) ==
    IF p.scheme # b.scheme \/ p.scheme \notin uses_relative THEN url
    ELSE IF p.scheme \in uses_netloc /\ p.netloc # <<>>
         THEN urlunsplit(p.scheme, p.netloc, p.path, p.query, p.fragment)
    ELSE JoinRelative(b, p, IF p.scheme \in uses_netloc THEN b.netloc ELSE p.netloc)

JoinBase(b, url) == JoinSplit(b, urlsplit(url, b.scheme), url)

\* urljoin(base, url); the inputs of the model hold no ';', so urlparse
\* finds no params and splits as urlsplit does
urljoin(base, url) ==
    IF base = <<>> THEN url
    ELSE IF url = <<>> THEN base
    ELSE JoinBase(urlsplit(base, <<>>), url)

\* ------------------------------------------------------------------------
\* URL normalization helpers of the script
\* ------------------------------------------------------------------------
BaseUrl == <<"h", "t", "t", "p", "s", ":", "/", "/", "d", "o", "c", "s", ".",
             "n", "g", "i", "n", "x", ".", "c", "o", "m">>

\* `a or b`
OrElse(a, b) == IF Truthy(a) THEN a ELSE b

\* normalize_url, lines 73-79: parsed.path or "/", the trailing slash, the
\* collapse of repeated slashes
WithTrailingSlash(path) == IF ~endswith(path, <<"/">>) THEN path \o <<"/">> ELSE path

\* NormalizePath without the collapse of repeated slashes (line 79 left out)
NormalizePathNoCollapse(path) ==
    WithTrailingSlash(IF path = <<>> THEN <<"/">> ELSE path)

NormalizePath(path) ==
    CollapseSlashes(WithTrailingSlash(IF path = <<>> THEN <<"/">> ELSE path))

\* normalize_url, lines 81-87
NormalizeParts(scheme, netloc, path) ==
    IF scheme # <<>> /\ netloc # <<>>
    THEN Str(urlunsplit(scheme, netloc, path, <<>>, <<>>))
    ELSE Str(IF ~startswith(path, <<"/">>) THEN <<"/">> \o path ELSE path)

NormalizeParsed(parsed) ==
    NormalizeParts(parsed.scheme, parsed.netloc, NormalizePath(parsed.path))

\* normalize_url, lines 66-72, on the stripped string
NormalizeStripped(u) ==
    IF u = <<>> THEN None ELSE NormalizeParsed(urlsplit(FixSchemeSlashes(u), <<>>))

normalize_url(url) ==
    IF ~isinstance_str(url) THEN None ELSE NormalizeStripped(strip(url.s))

\* ensure_absolute_and_normalize, lines 101-105, on the repaired string
EnsureParsed(u, parsed, base_url) ==
    IF parsed.scheme # <<>> /\ parsed.netloc # <<>>
    THEN normalize_url(Str(u))
    ELSE normalize_url(Str(urljoin(base_url, u)))

\* ensure_absolute_and_normalize, lines 97-100, on the stripped string
EnsureStripped(u, base_url) ==
    IF u = <<>> THEN None
    ELSE EnsureParsed(FixSchemeSlashes(u), urlsplit(FixSchemeSlashes(u), <<>>), base_url)

ensure_absolute_and_normalize(url, base_url) ==
    IF ~isinstance_str(url) THEN None ELSE EnsureStripped(strip(url.s), base_url)

\* strip_nginx_vars_from_url, lines 115-117
CleanedOfVars(s) == CollapseSlashes(RemoveNginxVars(s))

strip_nginx_vars_from_url(u) ==
    IF ~isinstance_str(u) THEN u
    ELSE OrElse(ensure_absolute_and_normalize(Str(CleanedOfVars(u.s)), BaseUrl),
                Str(CleanedOfVars(u.s)))

sanitize_nginx_target(raw_target) ==
    IF ~isinstance_str(raw_target) THEN <<>>
    ELSE CollapseSlashes(RemoveNginxVars(
            stripChars(stripChars(strip(raw_target.s), {"\""}), {"'"})))

\* ------------------------------------------------------------------------
\* The redirect file
\* ------------------------------------------------------------------------
\* A line of the file is held as the outcome of the parser's tests on it:
\*   hash     the stripped line is empty or starts with '#'          (line 153)
\*   loc      the path captured by the location pattern, or None     (line 158)
\*   locsp    the stripped line starts with "location "              (line 178)
\*   ret      the target captured by the return pattern, or None     (lines 162, 180)
\*   two_old, two_new   the two tokens of an "/old /new" line, or None (line 195)
RuleLine(hash, loc, locsp, ret, two_old, two_new) ==
    [hash |-> hash, loc |-> loc, locsp |-> locsp, ret |-> ret,
     two_old |-> two_old, two_new |-> two_new]

\* "# moved pages"
LineComment == RuleLine(TRUE, None, FALSE, None, None, None)

\* "# return 301 /w/;"
LineCommentedReturn == RuleLine(TRUE, None, FALSE, Str(<<"/", "w", "/">>), None, None)

\* "location /a/b/ { return 301 /x/; }"
LineBlockSameLine ==
    RuleLine(FALSE, Str(<<"/", "a", "/", "b", "/">>), TRUE, Str(<<"/", "x", "/">>), None, None)

\* "location = /a {"
LineBlockOpener == RuleLine(FALSE, Str(<<"/", "a">>), TRUE, None, None, None)

\* "    return 301 /y/$is_args$args;"
LineReturn ==
    RuleLine(FALSE, None, FALSE,
             Str(<<"/", "y", "/", "$", "i", "s", "_", "a", "r", "g", "s",
                   "$", "a", "r", "g", "s">>), None, None)

\* "}"
LineBrace == RuleLine(FALSE, None, FALSE, None, None, None)

\* "/a/ /z/"
LineTwoToken ==
    RuleLine(FALSE, None, FALSE, None, Str(<<"/", "a", "/">>), Str(<<"/", "z", "/">>))

\* "location /a/b { return 301 mailto:b; }"
LineBlockMailto ==
    RuleLine(FALSE, Str(<<"/", "a", "/", "b">>), TRUE,
             Str(<<"m", "a", "i", "l", "t", "o", ":", "b">>), None, None)

\* "Location /c/ { return 301 /w/; }"
LineBlockCapital ==
    RuleLine(FALSE, Str(<<"/", "c", "/">>), FALSE, Str(<<"/", "w", "/">>), None, None)

RuleLines == {LineComment, LineCommentedReturn, LineBlockSameLine, LineBlockOpener,
              LineReturn, LineBrace, LineTwoToken, LineBlockMailto, LineBlockCapital}

MaxLines == 3

RedirectFiles == UNION {[1..n -> RuleLines] : n \in 0..MaxLines}

\* ------------------------------------------------------------------------
\* load_redirects_from_nginx
\* ------------------------------------------------------------------------
\* the three places that normalize a pair and append it to `mappings`
AppendIfBoth(mappings, old_abs_norm, target_abs_norm) ==
    IF Truthy(old_abs_norm) /\ Truthy(target_abs_norm)
    THEN Append(mappings, [old |-> old_abs_norm.s, new |-> target_abs_norm.s])
    ELSE mappings

AppendMapping(mappings, old_path, raw_target) ==
    AppendIfBoth(mappings,
                 ensure_absolute_and_normalize(old_path, BaseUrl),
                 ensure_absolute_and_normalize(Str(sanitize_nginx_target(raw_target)), BaseUrl))

\* the inner loop: from 0-based index j, the first line that starts with
\* "location " (no target) or holds a return directive (its target)
RECURSIVE ScanForReturn(_, _)
ScanForReturn(lines, j) ==
    IF j >= Len(lines) THEN [j |-> j, found_target |-> None]
    ELSE IF lines[j + 1].locsp THEN [j |-> j, found_target |-> None]
    ELSE IF lines[j + 1].ret # None
         THEN [j |-> j, found_target |-> Str(strip(lines[j + 1].ret.s))]
    ELSE ScanForReturn(lines, j + 1)

\* lines 185-191: the end of a block whose opener holds no return
StepAfterScan(st, old_path, scan) ==
    [i |-> scan.j,
     mappings |-> IF Truthy(scan.found_target)
                  THEN AppendMapping(st.mappings, old_path, scan.found_target)
                  ELSE st.mappings]

\* one iteration of the outer loop on the parser state [i, mappings]
StepOnLine(lines, st, line) ==
    IF line.hash THEN [i |-> st.i + 1, mappings |-> st.mappings]
    ELSE IF line.loc # None
    THEN IF line.ret # None
         THEN [i |-> st.i + 1,
               mappings |-> AppendMapping(st.mappings, Str(strip(line.loc.s)),
                                          Str(strip(line.ret.s)))]
         ELSE StepAfterScan(st, Str(strip(line.loc.s)), ScanForReturn(lines, st.i + 1))
    ELSE IF line.two_old # None
    THEN [i |-> st.i + 1,
          mappings |-> AppendMapping(st.mappings, line.two_old, line.two_new)]
    ELSE [i |-> st.i + 1, mappings |-> st.mappings]

ParserStep(lines, st) == StepOnLine(lines, st, lines[st.i + 1])

RECURSIVE RunParser(_, _)
RunParser(lines, st) ==
    IF st.i < Len(lines) THEN RunParser(lines, ParserStep(lines, st)) ELSE st.mappings

\* a `seen` dictionary filled without the `old not in seen` test: a later
\* mapping of a key overwrites the earlier one (the key keeps its place)
RECURSIVE DedupeKeepLast(_, _)
DedupeKeepLast(mappings, seen) ==
    IF mappings = <<>> THEN seen
    ELSE DedupeKeepLast(Tail(mappings),
             IF Head(mappings).old = <<>> \/ Head(mappings).new = <<>> THEN seen
             ELSE IF \A k \in 1..Len(seen) : seen[k].old # Head(mappings).old
             THEN Append(seen, Head(mappings))
             ELSE [k \in 1..Len(seen) |->
                     IF seen[k].old = Head(mappings).old THEN Head(mappings) ELSE seen[k]])

\* the `seen` dictionary: insertion-ordered, the first mapping of a key stays
RECURSIVE DedupeKeepFirst(_, _)
DedupeKeepFirst(mappings, seen) ==
    IF mappings = <<>> THEN seen
    ELSE DedupeKeepFirst(Tail(mappings),
             IF /\ Head(mappings).old # <<>>
                /\ Head(mappings).new # <<>>
                /\ \A k \in 1..Len(seen) : seen[k].old # Head(mappings).old
             THEN Append(seen, Head(mappings)) ELSE seen)

\* the list left in the order of the file (the sort of line 213 left out)
KeepFileOrder(items, sorted) == sorted \o items

\* list.sort(key=len(old), reverse=True): stable, longest old path first
RECURSIVE SortByOldLenDesc(_, _)
SortByOldLenDesc(items, sorted) ==
    IF items = <<>> THEN sorted
    ELSE LET m == Head(items)
             k == Cardinality({n \in 1..Len(sorted) : Len(sorted[n].old) >= Len(m.old)})
         IN  SortByOldLenDesc(Tail(items),
                 SubSeq(sorted, 1, k) \o <<m>> \o SubSeq(sorted, k + 1, Len(sorted)))

FinalMappings(mappings) == SortByOldLenDesc(DedupeKeepFirst(mappings, <<>>), <<>>)

\* the whole function on a file that exists and can be read
load_redirects_from_nginx(lines) ==
    FinalMappings(RunParser(lines, [i |-> 0, mappings |-> <<>>]))

\* the redirect files the main pipeline is run with: an empty file, a file of
\* comments, a deep and a shallow rule in both orders, two rules for one path,
\* a rule whose target is no web page
SampleFiles ==
    {<<>>,
     <<LineComment>>,
     <<LineBlockSameLine, LineBlockOpener, LineReturn>>,
     <<LineBlockOpener, LineReturn, LineBlockSameLine>>,
     <<LineTwoToken, LineBlockOpener, LineReturn>>,
     <<LineBlockMailto>>}

\* the tables load_redirects_from_nginx returns for them
SampleTables == {load_redirects_from_nginx(f) : f \in SampleFiles}

\* ------------------------------------------------------------------------
\* apply_redirect_mappings_in_place and the other column transforms
\* ------------------------------------------------------------------------
\* the lambda pair applied to a URL column (lines 235-236 and 403-404)
StripVarsCell(v) == IF isinstance_str(v) THEN strip_nginx_vars_from_url(v) ELSE v

\* the first lambda with `else u` in place of `else None`
NormalizeCellKeepsOther(u) ==
    StripVarsCell(IF isinstance_str(u) THEN ensure_absolute_and_normalize(u, BaseUrl) ELSE u)

NormalizeCell(u) ==
    StripVarsCell(IF isinstance_str(u) THEN ensure_absolute_and_normalize(u, BaseUrl) ELSE None)

\* map_one, lines 243-245, with the first rule that matched
MapWithRule(url, rule) ==
    OrElse(strip_nginx_vars_from_url(Str(ReplaceFirst(url.s, rule.old, rule.new))),
           Str(ReplaceFirst(url.s, rule.old, rule.new)))

\* the rules of the table whose old path url starts with, as indexes
MatchingRules(url, mappings) == {k \in 1..Len(mappings) : startswith(url.s, mappings[k].old)}

\* map_one that keeps scanning the table and rewrites with the last rule that
\* matches (the `return mapped` inside the loop left out)
map_one_last_match(url, mappings) ==
    IF ~isinstance_str(url) THEN url
    ELSE IF MatchingRules(url, mappings) # {}
         THEN MapWithRule(url, mappings[Max(MatchingRules(url, mappings))])
    ELSE OrElse(strip_nginx_vars_from_url(url), url)

map_one(url, mappings) ==
    IF ~isinstance_str(url) THEN url
    ELSE IF MatchingRules(url, mappings) # {}
         THEN MapWithRule(url, mappings[Min(MatchingRules(url, mappings))])
    ELSE OrElse(strip_nginx_vars_from_url(url), url)

OldPat == <<"h", "t", "t", "p", "s", ":", "/", "/", "d", "o", "c", "s", ".", "n", "g", "i",
            "n", "x", ".", "c", "o", "m", "/", "n", "g", "i", "n", "x", "a", "a", "s", "-",
            "a", "z", "u", "r", "e", "/", "k", "n", "o", "w", "n", "-", "i", "s", "s", "u",
            "e", "s", "/">>

NewPat == <<"h", "t", "t", "p", "s", ":", "/", "/", "d", "o", "c", "s", ".", "n", "g", "i",
            "n", "x", ".", "c", "o", "m", "/", "n", "g", "i", "n", "x", "a", "a", "s", "/",
            "a", "z", "u", "r", "e", "/", "k", "n", "o", "w", "n", "-", "i", "s", "s", "u",
            "e", "s", "/">>

\* the per-cell effect of replace_specific_old
ReplaceSpecificCell(val) ==
    IF isinstance_str(val) /\ Contains(val.s, OldPat)
    THEN Str(ReplaceAll(val.s, OldPat, NewPat)) ELSE val

\* ------------------------------------------------------------------------
\* Inputs of the model
\* ------------------------------------------------------------------------
UrlChars == {"a", ":", "/", "?", "#"}

UrlBodies == UNION {[1..n -> UrlChars] : n \in 0..MaxBody}

UrlPrefixes == {<<>>, <<" ">>, <<"h", "t", "t", "p", ":">>, <<"h", "t", "t", "p", "s", ":">>,
                BaseUrl}

\* arguments of a direct call of the normalizer: None, a number, and strings
UrlInputs == {None, NumCell} \cup {Str(p \o b) : p \in UrlPrefixes, b \in UrlBodies}

\* rows of the survey sheet: the Link URL cell, the kind of text in Q2
\* ("text", "testing" for a text that contains 'testing', "email" for a text
\* with an e-mail address in it) and the ResponseId ("R_bogus" is listed in
\* the exclude file).  orig and canon are the cells of 'Original Link URL'
\* and 'Canonical Link URL' once these columns exist.  loaded is no cell: it
\* records the Link URL cell as load_data read it, and row is the index
\* load_data gave the row (0 before that).
SheetRow(link, q2, rid) ==
    [link |-> link, q2 |-> q2, rid |-> rid, orig |-> None, canon |-> None, loaded |-> link,
     row |-> 0]

\* "/a/b/c?q"
RowDeep == SheetRow(Str(<<"/", "a", "/", "b", "/", "c", "?", "q">>), "text", "R_keep")

\* "https://docs.nginx.com/a/c"
RowShallow == SheetRow(Str(BaseUrl \o <<"/", "a", "/", "c">>), "email", "R_bogus")

RowKnownIssues == SheetRow(Str(OldPat), "text", "R_keep")

RowBlank == SheetRow(Str(<<" ", " ">>), "text", "R_keep")

RowNumber == SheetRow(NumCell, "text", "R_keep")

RowMissing == SheetRow(None, "text", "R_keep")

RowTesting == SheetRow(Str(<<"/", "a", "/", "b", "/", "c", "?", "q">>), "testing", "R_keep")

\* "a://b": a scheme other than http(s)
RowOtherScheme == SheetRow(Str(<<"a", ":", "/", "/", "b">>), "text", "R_keep")

\* a second sheet row that repeats the header: each cell holds the name of
\* its column
RowRepeatedHeader ==
    SheetRow(Str(<<"L", "i", "n", "k", " ", "U", "R", "L">>), "header", "ResponseId")

\* the row of question texts, with the cell "Any suggestions for improvement?"
RowSubheading == SheetRow(Str(<<"U", "R", "L">>), "subheading", "Response ID")

SampleRows == {RowDeep, RowShallow, RowKnownIssues, RowBlank, RowNumber, RowMissing, RowTesting,
               RowOtherScheme}

MaxRows == 2

Frames == UNION {[1..n -> SampleRows] : n \in 0..MaxRows}

FullHeader == {"Link URL", "Q2", "ResponseId", "LocationLatitude", "LocationLongitude"}

\* the column names _find_responseid_column takes for the ResponseId column
ResponseIdNames == {"ResponseId", "responseid", "Response ID", "response_id"}

Headers == {FullHeader, FullHeader \ {"Link URL"},
            (FullHeader \ {"ResponseId"}) \cup {"Response ID"},
            {"LocationLongitude"}}

\* the data rows of the sheets process_survey_feedback_new.py is run on
NewFrames == UNION {[1..n -> {RowDeep, RowNumber, RowMissing, RowTesting}] : n \in 0..MaxRows}

\* the rows a sheet can hold between its header and its data rows
LeadRows == {<<>>, <<RowRepeatedHeader>>, <<RowSubheading>>}

\* the sheets load_data is called with on its own: the first row (the column
\* names) and the rows under it
SheetBodies == UNION {[1..n -> {RowRepeatedHeader, RowSubheading, RowDeep, RowMissing}] :
                        n \in 0..MaxRows}

Sheets == {[header |-> h, body |-> b] : h \in Headers, b \in SheetBodies}

\* load_data, lines 275-282: the rows left under the header
DataRows(body) ==
    IF body # <<>> /\ (body[1] = RowRepeatedHeader \/ body[1].q2 = "subheading")
    THEN Tail(body) ELSE body

\* load_data, line 284: the frame of these rows under the header
load_data(header, body) ==
    [cols |-> header,
     df |-> [k \in 1..Len(DataRows(body)) |->
               IF "Link URL" \in header
               THEN [DataRows(body)[k] EXCEPT !.row = k]
               ELSE [DataRows(body)[k] EXCEPT !.link = None, !.loaded = None, !.row = k]]]

\* process_survey_feedback_new.py, clean_url: the text before the first '#',
\* with a '/' added when it does not end with one
clean_url(url) == WithTrailingSlash(Before(url, "#"))

\* the cell "/o" of an 'Original Link URL' column that the sheet holds when
\* it is loaded
LoadedOriginal == Str(<<"/", "o">>)

\* one-row frames for the URL stages called on their own, with and without
\* an 'Original Link URL' column in the sheet
StageFrames ==
    {[cols |-> FullHeader, df |-> <<r>>] : r \in SampleRows}
    \cup {[cols |-> FullHeader \cup {"Original Link URL"},
           df |-> <<[r EXCEPT !.orig = LoadedOriginal]>>] : r \in SampleRows}

\* ------------------------------------------------------------------------
\* archive-docs.py: the text of Markdown files
\* ------------------------------------------------------------------------
\* A line of a Markdown file is a sequence of items: a piece of text, an
\* include shortcode {{< include "name" >}} or a versions shortcode.  The
\* files of the model hold no HTML comment and no relref shortcode.
Text(s) == [k |-> "text", v |-> s]

Include(name) == [k |-> "include", v |-> name]

Versions == [k |-> "versions", v |-> "3.12"]

\* "---\n"
Delim == <<Text("---"), Text("\n")>>

\* a line of plain text
TextLine(s) == <<Text(s), Text("\n")>>

\* "b {{< include "name" >}} c\n"
IncludeLine(name) == <<Text("b"), Include(name), Text("c"), Text("\n")>>

\* "".join(lines)
RECURSIVE Join(_)
Join(lines) == IF lines = <<>> THEN <<>> ELSE Head(lines) \o Join(Tail(lines))

\* strip_front_matter: every line that is "---" flips in_front_matter
RECURSIVE StripFrom(_, _)
StripFrom(lines, in_front_matter) ==
    IF lines = <<>> THEN <<>>
    ELSE IF Head(lines) = Delim THEN StripFrom(Tail(lines), ~in_front_matter)
    ELSE IF ~in_front_matter THEN <<Head(lines)>> \o StripFrom(Tail(lines), in_front_matter)
    ELSE StripFrom(Tail(lines), in_front_matter)

strip_front_matter(lines) == StripFrom(lines, FALSE)

remove_versions_lines(lines) ==
    SelectSeq(lines, LAMBDA line : \A n \in 1..Len(line) : line[n].k # "versions")

\* expand_includes, lines 87-92: the include file is missing
MissingInclude(acc, name) ==
    [acc EXCEPT !.msgs = Append(@, [text |-> "ERROR: Missing include", file |-> name])]

\* expand_includes, lines 81-86: the expanded content of the include file is
\* appended to replaced_line
Included(acc, sub) ==
    [out |-> acc.out \o Join(sub.out), msgs |-> acc.msgs \o sub.msgs, raised |-> sub.raised]

\* expand_includes.  The include files of a cycle hold no missing include
\* in this model.  The result is [out, msgs, raised]: the list returned,
\* the messages appended to log_messages (stats['errors'] grows by one with
\* each), and whether the call ended in RecursionError, which it does when an
\* include file is reached while it is being expanded (open holds the names
\* of these files).  ExpandItems is the inner loop over the parts of a line.
RECURSIVE ExpandItems(_, _, _, _)
RECURSIVE ExpandLines(_, _, _, _)
ExpandItems(items, dir, open, acc) ==
    IF items = <<>> \/ acc.raised THEN acc
    ELSE IF Head(items).k # "include"
    THEN ExpandItems(Tail(items), dir, open, [acc EXCEPT !.out = Append(@, Head(items))])
    ELSE IF Head(items).v \notin DOMAIN dir
    THEN ExpandItems(Tail(items), dir, open, MissingInclude(acc, Head(items).v))
    ELSE IF Head(items).v \in open
    THEN [acc EXCEPT !.raised = TRUE]
    ELSE ExpandItems(Tail(items), dir, open,
             Included(acc, ExpandLines(strip_front_matter(dir[Head(items).v]), dir,
                                       open \cup {Head(items).v},
                                       [out |-> <<>>, msgs |-> <<>>, raised |-> FALSE])))

\* one line expanded into acc
ExpandedInto(acc, line) ==
    [out |-> Append(acc.out, line.out), msgs |-> acc.msgs \o line.msgs, raised |-> line.raised]

ExpandLines(lines, dir, open, acc) ==
    IF lines = <<>> \/ acc.raised THEN acc
    ELSE ExpandLines(Tail(lines), dir, open,
             ExpandedInto(acc, ExpandItems(Head(lines), dir, open,
                                           [out |-> <<>>, msgs |-> <<>>, raised |-> FALSE])))

expand_includes(lines, dir) ==
    ExpandLines(lines, dir, {}, [out |-> <<>>, msgs |-> <<>>, raised |-> FALSE])

\* main, lines 178-192: the text written for a file whose lines were read
Archived(expanded) == Join(remove_versions_lines(expanded))

\* the include directories of the model.  "m.md" is in none of them.
\* x.md has front matter; y.md includes x.md with text around the shortcode
DirNested ==
    ("x.md" :> <<Delim, TextLine("t"), Delim, TextLine("x")>>)
    @@ ("y.md" :> <<TextLine("y"), <<Text("p"), Include("x.md"), Text("q"), Text("\n")>>>>)

\* x.md has a line "---" in its body; y.md has no front matter and one "---"
DirRule ==
    ("x.md" :> <<Delim, TextLine("t"), Delim, TextLine("x"), Delim, TextLine("z")>>)
    @@ ("y.md" :> <<TextLine("y"), Delim, TextLine("z")>>)

\* x.md includes itself; y.md includes x.md
DirSelf ==
    ("x.md" :> <<TextLine("x"), IncludeLine("x.md")>>)
    @@ ("y.md" :> <<IncludeLine("x.md")>>)

\* x.md includes y.md and y.md includes x.md
DirCycle ==
    ("x.md" :> <<TextLine("x"), IncludeLine("y.md")>>)
    @@ ("y.md" :> <<IncludeLine("x.md"), TextLine("y")>>)

IncludeDirs == {DirNested, DirRule, DirSelf, DirCycle}

\* the Markdown files of the doc set: [readable, lines]
Doc(lines) == [readable |-> TRUE, lines |-> lines]

SampleDocs ==
    {Doc(<<Delim, TextLine("t"), Delim, TextLine("a")>>),
     Doc(<<TextLine("a"), IncludeLine("x.md"), TextLine("d")>>),
     Doc(<<TextLine("a"), IncludeLine("y.md"), TextLine("d")>>),
     Doc(<<TextLine("a"), IncludeLine("m.md"), TextLine("d")>>),
     Doc(<<<<Include("x.md"), Include("m.md"), Include("x.md"), Text("\n")>>>>),
     Doc(<<TextLine("a"), <<Versions, Text("\n")>>>>),
     Doc(<<Delim, TextLine("t"), Delim, TextLine("a"), Delim, TextLine("d")>>),
     Doc(<<IncludeLine("m.md"), TextLine("a"), IncludeLine("m.md")>>),
     [readable |-> FALSE, lines |-> <<>>]}

MaxDocs == 2

DocSets == UNION {[1..n -> SampleDocs] : n \in 1..MaxDocs}

\* main, lines 165-205: what the loop body does with one file, given the
\* result r of expand_includes on its lines: the messages logged, the errors
\* counted, the success counted and the file written
NotWritten == [written |-> FALSE, text |-> <<>>]

ProcessedFile(doc, r) ==
    IF ~doc.readable
    THEN [msgs |-> <<[text |-> "ERROR while reading", file |-> "source"]>>,
          errors |-> 1, success |-> 0, file |-> NotWritten]
    ELSE IF r.raised
    THEN [msgs |-> Append(r.msgs, [text |-> "ERROR while reading", file |-> "source"]),
          errors |-> Len(r.msgs) + 1, success |-> 0, file |-> NotWritten]
    ELSE [msgs |-> Append(r.msgs, [text |-> "Processed", file |-> "source"]),
          errors |-> Len(r.msgs),
          success |-> IF r.msgs = <<>> THEN 1 ELSE 0,
          file |-> [written |-> TRUE, text |-> Archived(r.out)]]

\* ------------------------------------------------------------------------
\* remove_metadata_keys.py: Markdown files and their front matter
\* ------------------------------------------------------------------------
\* YAML values: a string, a list of strings, or null
Scalar(s) == [t |-> "str", s |-> s, items |-> <<>>]

ListOf(items) == [t |-> "list", s |-> "", items |-> items]

Null == [t |-> "null", s |-> "", items |-> <<>>]

\* The text of a file is a sequence of tokens: the string "---", a newline,
\* one "key: value" entry of a YAML mapping, the text "{}", a piece of plain
\* text, a piece of text that is no YAML.  An entry is dumped when its text
\* is the one safe_dump writes for it ("key: v", a list in block style,
\* "key: null"); an entry that is not is written another way ("a\x2d--b",
\* a list in flow style, "key:").
Dashes == [k |-> "---", s |-> "", val |-> Null, dumped |-> FALSE]

Newline == [k |-> "nl", s |-> "", val |-> Null, dumped |-> FALSE]

Entry(key, val, dumped) == [k |-> "entry", s |-> key, val |-> val, dumped |-> dumped]

EmptyMapping == [k |-> "{}", s |-> "", val |-> Null, dumped |-> FALSE]

Body(s) == [k |-> "text", s |-> s, val |-> Null, dumped |-> FALSE]

BadYaml == [k |-> "bad", s |-> "", val |-> Null, dumped |-> FALSE]

UNNEEDED_KEYS ==
    <<"_build", "aliases", "display_breadcrumb", "linkTitle", "menu", "catalog",
      "catalogType", "journeys", "tags", "authors", "date", "versions">>

VALID_TYPE_VALUES ==
    {"tutorial", "how-to", "concept", "reference", "getting-started", "redoc"}

\* A mapping is the sequence of its [key, val] pairs, in insertion order.
HasKey(data, key) == \E n \in 1..Len(data) : data[n].key = key

ValueOf(data, key) == data[CHOOSE n \in 1..Len(data) : data[n].key = key].val

\* data.pop(key, None)
Without(data, key) == SelectSeq(data, LAMBDA pair : pair.key # key)

Popped(data, key) == IF HasKey(data, key) THEN ValueOf(data, key) ELSE Null

\* data[key] = val
WithKey(data, key, val) ==
    IF HasKey(data, key)
    THEN [n \in 1..Len(data) |-> IF data[n].key = key THEN [key |-> key, val |-> val] ELSE data[n]]
    ELSE Append(data, [key |-> key, val |-> val])

\* content.split("---")
RECURSIVE SplitOnDashes(_, _, _)
SplitOnDashes(tokens, part, parts) ==
    IF tokens = <<>> THEN Append(parts, part)
    ELSE IF Head(tokens).k = "---" THEN SplitOnDashes(Tail(tokens), <<>>, Append(parts, part))
    ELSE SplitOnDashes(Tail(tokens), Append(part, Head(tokens)), parts)

\* "---".join(parts)
RECURSIVE JoinWithDashes(_)
JoinWithDashes(parts) ==
    IF parts = <<>> THEN <<>>
    ELSE IF Len(parts) = 1 THEN parts[1]
    ELSE parts[1] \o <<Dashes>> \o JoinWithDashes(Tail(parts))

\* yaml.safe_load of the tokens of a text, newlines left out: nothing and
\* "{}" are falsy and become {} (line 155), entries are a mapping, plain
\* text alone is a scalar, anything else is a YAMLError.  The entries of a
\* text of the model have different keys.
LoadedTokens(tokens) ==
    IF tokens = <<>> \/ tokens = <<EmptyMapping>>
    THEN [kind |-> "dict", data |-> <<>>]
    ELSE IF \A n \in 1..Len(tokens) : tokens[n].k = "entry"
    THEN [kind |-> "dict",
          data |-> [n \in 1..Len(tokens) |-> [key |-> tokens[n].s, val |-> tokens[n].val]]]
    ELSE IF \A n \in 1..Len(tokens) : tokens[n].k = "text"
    THEN [kind |-> "scalar", data |-> <<>>]
    ELSE [kind |-> "error", data |-> <<>>]

safe_load(text) == LoadedTokens(SelectSeq(text, LAMBDA token : token.k # "nl"))

\* the value an author writes as "a\x2d--b" is the string a---b, which
\* safe_dump writes plain: the text then holds the string "---"
DashedValue == Scalar("a---b")

DumpedEntry(pair) ==
    IF pair.val = DashedValue
    THEN <<Entry(pair.key, Scalar("a"), TRUE), Dashes, Body("b")>>
    ELSE <<Entry(pair.key, pair.val, TRUE)>>

\* yaml.safe_dump(data, sort_keys=False, allow_unicode=True).strip()
RECURSIVE DumpedEntries(_)
DumpedEntries(data) ==
    IF Len(data) = 1 THEN DumpedEntry(data[1])
    ELSE DumpedEntry(data[1]) \o <<Newline>> \o DumpedEntries(Tail(data))

safe_dump(data) == IF data = <<>> THEN <<EmptyMapping>> ELSE DumpedEntries(data)

to_list(value) ==
    IF value.t = "list" THEN value.items
    ELSE IF value.t = "str" THEN <<value.s>>
    ELSE <<>>

\* merge_categories_and_doctypes, lines 88-96
Converted(combined) ==
    [n \in 1..Len(combined) |->
        IF combined[n] \in {"task", "tasks"} THEN "how-to"
        ELSE IF combined[n] = "concepts" THEN "concept"
        ELSE combined[n]]

\* merge_categories_and_doctypes, lines 77-98, after the two pops
MergedInto(data, categories_value, doctypes_value) ==
    IF categories_value = Null /\ doctypes_value = Null THEN data
    ELSE WithKey(data, "type",
                 ListOf(Converted(to_list(categories_value) \o to_list(doctypes_value))))

merge_categories_and_doctypes(data) ==
    MergedInto(Without(Without(data, "categories"), "doctypes"),
               Popped(data, "categories"), Popped(data, "doctypes"))

\* filter_type_values, line 109, raises TypeError on a 'type' that is null
TypeRaises(data) == HasKey(data, "type") /\ ValueOf(data, "type").t = "null"

\* filter_type_values, lines 109-112: a 'type' that is a string is gone
\* through character by character, and no single character is a valid value
Filtered(value) ==
    IF value.t = "list"
    THEN ListOf(SelectSeq(value.items, LAMBDA item : item \in VALID_TYPE_VALUES))
    ELSE ListOf(<<>>)

filter_type_values(data) ==
    IF ~HasKey(data, "type") THEN data
    ELSE WithKey(data, "type", Filtered(ValueOf(data, "type")))

\* remove_unneeded_keys: the list returned
remove_unneeded_keys(data) ==
    SelectSeq(UNNEEDED_KEYS, LAMBDA key : HasKey(data, key))

\* remove_unneeded_keys with line 131 left out: no key is deleted
AllKeysKept(data) == data

\* remove_unneeded_keys: the mapping left
KeysKept(data) ==
    SelectSeq(data, LAMBDA pair : \A n \in 1..Len(UNNEEDED_KEYS) : UNNEEDED_KEYS[n] # pair.key)

\* What one call of process_file did: how it ended, whether the file was
\* opened for writing, the content of the file after the call, removed_keys,
\* had_categories and had_doctypes as line 182 reads them (nothing and FALSE
\* in a call that does not get there), the mapping parsed and the mapping
\* left.
Skipped(content, why) ==
    [outcome |-> why, opened |-> FALSE, content |-> content, removed_keys |-> <<>>,
     had_categories |-> FALSE, had_doctypes |-> FALSE, front |-> <<>>, kept |-> <<>>]

\* process_file, line 182: always TRUE, the file written whatever was done
AlwaysChanged(removed_keys, had_categories, had_doctypes) == TRUE

\* process_file, line 182
Changed(removed_keys, had_categories, had_doctypes) ==
    removed_keys # <<>> \/ had_categories \/ had_doctypes

\* process_file, lines 195-200
new_content(before_front_matter, updated_front_matter_text, after_front_matter) ==
    before_front_matter \o <<Dashes, Newline>> \o updated_front_matter_text
    \o <<Newline, Dashes, Newline>> \o after_front_matter

\* process_file, lines 179-210
Pruned(content, before, front, had_categories, had_doctypes, removed_keys, kept, after) ==
    IF Changed(removed_keys, had_categories, had_doctypes)
    THEN [outcome |-> "written", opened |-> TRUE,
          content |-> new_content(before, safe_dump(kept), after),
          removed_keys |-> removed_keys, had_categories |-> had_categories,
          had_doctypes |-> had_doctypes, front |-> front, kept |-> kept]
    ELSE [outcome |-> "no changes", opened |-> FALSE, content |-> content,
          removed_keys |-> removed_keys, had_categories |-> had_categories,
          had_doctypes |-> had_doctypes, front |-> front, kept |-> kept]

\* process_file, lines 172-179
FilteredAndPruned(content, before, front, filtered, after) ==
    Pruned(content, before, front, HasKey(front, "categories"), HasKey(front, "doctypes"),
           remove_unneeded_keys(filtered), KeysKept(filtered), after)

\* process_file, lines 165-172
Merged(content, before, front, merged, after) ==
    IF TypeRaises(merged)
    THEN [Skipped(content, "raised") EXCEPT !.front = front]
    ELSE FilteredAndPruned(content, before, front, filter_type_values(merged), after)

\* process_file, lines 153-169
Loaded(content, before, loaded, after) ==
    IF loaded.kind = "error" THEN Skipped(content, "YAML parse error")
    ELSE IF loaded.kind = "scalar" THEN Skipped(content, "not a dictionary")
    ELSE Merged(content, before, loaded.data, merge_categories_and_doctypes(loaded.data), after)

\* process_file, lines 143-151
SplitContent(content, parts) ==
    IF Len(parts) < 3 THEN Skipped(content, "no valid front matter")
    ELSE Loaded(content, parts[1], safe_load(parts[2]),
                JoinWithDashes(SubSeq(parts, 3, Len(parts))))

process_file(content) == SplitContent(content, SplitOnDashes(content, <<>>, <<>>))

\* the files of the model
SampleEntries ==
    {Entry("title", Scalar("v"), TRUE),
     Entry("title", DashedValue, FALSE),
     Entry("date", Scalar("v"), TRUE),
     Entry("tags", ListOf(<<"v">>), FALSE),
     Entry("categories", Scalar("task"), TRUE),
     Entry("categories", ListOf(<<"tasks", "v">>), FALSE),
     Entry("categories", Null, FALSE),
     Entry("doctypes", Scalar("concepts"), TRUE),
     Entry("type", ListOf(<<"concept", "v">>), FALSE),
     Entry("type", Scalar("concept"), TRUE),
     Entry("type", Null, FALSE)}

MaxKeys == 2

\* the entries of a front matter block: at most MaxKeys, keys different
EntryLists ==
    UNION {{es \in [1..n -> SampleEntries] : \A a, b \in 1..n : a # b => es[a].s # es[b].s}
           : n \in 0..MaxKeys}

\* each entry on its line
RECURSIVE EntryLines(_)
EntryLines(es) ==
    IF es = <<>> THEN <<>> ELSE <<Head(es), Newline>> \o EntryLines(Tail(es))

MarkdownFile(before, front_matter_text, after) ==
    before \o <<Dashes, Newline>> \o front_matter_text \o <<Dashes>> \o after

\* nothing or a line of text before the block
Befores == {<<>>, <<Body("v"), Newline>>}

\* after the block: nothing, a body, a body that holds a second block
Afters ==
    {<<>>,
     <<Newline, Body("v"), Newline>>,
     <<Newline, Body("v"), Newline, Dashes, Newline, Entry("date", Scalar("v"), TRUE),
       Newline, Dashes, Newline>>}

\* files with no block, with half a block, with a block that is a scalar,
\* that is no YAML, that is "{}"
OtherFiles ==
    {<<Body("v"), Newline>>,
     <<Dashes, Newline, Entry("date", Scalar("v"), TRUE), Newline>>,
     MarkdownFile(<<>>, <<Body("v"), Newline>>, <<Newline>>),
     MarkdownFile(<<>>, <<Entry("date", Scalar("v"), TRUE), Newline, BadYaml, Newline>>, <<Newline>>),
     MarkdownFile(<<>>, <<Entry("date", Scalar("v"), TRUE), Newline, Body("v"), Newline>>, <<Newline>>),
     MarkdownFile(<<>>, <<EmptyMapping, Newline>>, <<Newline, Body("v"), Newline>>)}

MarkdownFiles ==
    {MarkdownFile(b, EntryLines(es), a) : b \in Befores, es \in EntryLists, a \in Afters}
    \cup OtherFiles

\* the number of times process_file is called on a file
MaxCalls == 2

\* ------------------------------------------------------------------------
\* State
\* ------------------------------------------------------------------------
VARIABLES
    entry,          \* the function that was called: "normalize_url",
                    \* "ensure_absolute_and_normalize", "load_redirects_from_nginx", "main"
    pc,             \* position in that function
    log,            \* the warnings and errors logged so far
    url_input,      \* normalizer call: the argument of the first call
    url_arg,        \* normalizer call: the argument of the current call
    url_ret,        \* normalizer call: the value returned
    redirect_file,  \* the redirect file on disk: [state, content]
    lines,          \* load_redirects_from_nginx: lines
    i,              \* load_redirects_from_nginx: i
    parsed,         \* load_redirects_from_nginx: mappings (before deduplication)
    mappings,       \* the table returned by load_redirects_from_nginx
    df,             \* main: the rows of the frame
    cols,           \* main: the column names of the frame
    map_args,       \* apply_redirect_mappings_in_place: the column handed to map_one
    changed,        \* apply_redirect_mappings_in_place: rows logged as canonicalized
    output,         \* main: the sheet written, None before
    sheet,          \* load_data called on its own: the sheet read, [header, body]
    includes_path,  \* archive-docs: the include files, by name
    doc_set,        \* archive-docs: the Markdown files of the doc set, in walk order
    file_idx,       \* archive-docs: the number of files the walk has gone through
    log_messages,   \* archive-docs: log_messages
    stats,          \* archive-docs: stats
    archive,        \* archive-docs: for each file gone through, the file written
    file_content,   \* remove_metadata_keys: the content of the file at filepath
    calls,          \* remove_metadata_keys: what each call of process_file did
    geo_df,         \* reverse_geocode_country_only: the coordinate cells of df, by row
    cache_file,     \* reverse_geocode_country_only: the cache file on disk
    geo_run,        \* reverse_geocode_country_only: what the call did
    base_url,       \* get_pages: base_url
    site,           \* get_pages: what the server answers for each URL
    visited,        \* get_pages: visited
    to_visit,       \* get_pages: to_visit
    found_links,    \* get_pages: found_links
    requested,      \* get_pages: the URLs handed to requests.get, in order
    elapsed,        \* export_qualtrics: time.time() - start, in seconds
    polls,          \* export_qualtrics: the number of polls made
    last_poll,      \* export_qualtrics: what the last poll reported
    called,         \* export_qualtrics: the steps of main run after the wait
    error           \* export_qualtrics: the exception that ended main, or "none"

vars == <<entry, pc, log, url_input, url_arg, url_ret, redirect_file, lines, i, parsed,
          mappings, df, cols, map_args, changed, output, sheet,
          includes_path, doc_set, file_idx, log_messages, stats, archive,
          file_content, calls, geo_df, cache_file, geo_run,
          base_url, site, visited, to_visit, found_links, requested,
          elapsed, polls, last_poll, called, error>>

geoVars == <<geo_df, cache_file, geo_run>>

crawlVars == <<base_url, site, visited, to_visit, found_links, requested>>

pollVars == <<elapsed, polls, last_poll, called, error>>

arcVars == <<includes_path, doc_set, file_idx, log_messages, stats, archive>>

mdVars == <<file_content, calls>>

urlVars == <<url_input, url_arg, url_ret>>

parserVars == <<redirect_file, lines, i, parsed>>

frameVars == <<df, cols, map_args, changed, output>>

NoFile == [state |-> "missing", content |-> <<>>]

UrlIdle == url_input = None /\ url_arg = None /\ url_ret = None

ParserIdle == lines = <<>> /\ i = 0 /\ parsed = <<>>

FrameIdle == df = <<>> /\ cols = {} /\ map_args = <<>> /\ changed = <<>> /\ output = None

NoSheet == [header |-> {}, body |-> <<>>]

ArcIdle ==
    /\ includes_path = <<>> /\ doc_set = <<>> /\ file_idx = 0
    /\ log_messages = <<>> /\ stats = [processed |-> 0, success |-> 0, errors |-> 0]
    /\ archive = <<>>

MdIdle == file_content = <<>> /\ calls = <<>>

NoGeoRun ==
    [state |-> "not called", loaded |-> <<>>, coord_list |-> <<>>, country_col |-> <<>>,
     failed |-> FALSE, wrote |-> FALSE]

NoCacheFile == [state |-> "missing", entries |-> <<>>]

GeoIdle == geo_df = <<>> /\ cache_file = NoCacheFile /\ geo_run = NoGeoRun

CrawlIdle ==
    /\ base_url = <<>> /\ site = <<>> /\ visited = {} /\ to_visit = {}
    /\ found_links = {} /\ requested = <<>>

NoPoll == [status |-> "none", file_id |-> ""]

PollIdle == elapsed = 0 /\ polls = 0 /\ last_poll = NoPoll /\ called = <<>> /\ error = "none"

\* ------------------------------------------------------------------------
\* A call of normalize_url or ensure_absolute_and_normalize, and a second
\* call on the value the first one returned
\* ------------------------------------------------------------------------
InitNormalizer ==
    /\ entry \in {"normalize_url", "ensure_absolute_and_normalize"}
    /\ pc = "call"
    /\ url_input \in UrlInputs
    /\ url_arg = url_input
    /\ url_ret = None
    /\ log = <<>> /\ redirect_file = NoFile /\ mappings = <<>>
    /\ ParserIdle /\ FrameIdle /\ sheet = NoSheet /\ ArcIdle /\ MdIdle
    /\ GeoIdle /\ CrawlIdle /\ PollIdle

CallNormalizeUrl ==
    /\ entry = "normalize_url"
    /\ pc \in {"call", "call_again"}
    /\ url_ret' = normalize_url(url_arg)
    /\ pc' = IF pc = "call" THEN "returned" ELSE "returned_again"
    /\ UNCHANGED <<entry, geoVars, crawlVars, pollVars, sheet, arcVars, mdVars, log, url_input, url_arg, mappings, parserVars, frameVars>>

CallEnsureAbsoluteAndNormalize ==
    /\ entry = "ensure_absolute_and_normalize"
    /\ pc \in {"call", "call_again"}
    /\ url_ret' = ensure_absolute_and_normalize(url_arg, BaseUrl)
    /\ pc' = IF pc = "call" THEN "returned" ELSE "returned_again"
    /\ UNCHANGED <<entry, geoVars, crawlVars, pollVars, sheet, arcVars, mdVars, log, url_input, url_arg, mappings, parserVars, frameVars>>

\* the caller hands the returned string to the same function again
PassResultBack ==
    /\ entry \in {"normalize_url", "ensure_absolute_and_normalize"}
    /\ pc = "returned"
    /\ isinstance_str(url_ret)
    /\ url_arg' = url_ret
    /\ pc' = "call_again"
    /\ UNCHANGED <<entry, geoVars, crawlVars, pollVars, sheet, arcVars, mdVars, log, url_input, url_ret, mappings, parserVars, frameVars>>

\* ------------------------------------------------------------------------
\* A call of load_redirects_from_nginx, one loop iteration per step
\* ------------------------------------------------------------------------
InitLoadRedirects ==
    /\ entry = "load_redirects_from_nginx"
    /\ pc = "exists"
    /\ \/ redirect_file \in {[state |-> "missing", content |-> <<>>],
                             [state |-> "unreadable", content |-> <<>>]}
       \/ \E f \in RedirectFiles : redirect_file = [state |-> "ok", content |-> f]
    /\ log = <<>> /\ mappings = <<>>
    /\ ParserIdle /\ UrlIdle /\ FrameIdle /\ sheet = NoSheet /\ ArcIdle /\ MdIdle
    /\ GeoIdle /\ CrawlIdle /\ PollIdle

\* the missing file handled without the warning of line 140
LoadRedirectsFileMissingSilent ==
    /\ entry = "load_redirects_from_nginx"
    /\ pc = "exists"
    /\ redirect_file.state = "missing"
    /\ mappings' = <<>>
    /\ pc' = "returned"
    /\ UNCHANGED <<entry, geoVars, crawlVars, pollVars, sheet, arcVars, mdVars, log, urlVars, parserVars, frameVars>>

LoadRedirectsFileMissing ==
    /\ entry = "load_redirects_from_nginx"
    /\ pc = "exists"
    /\ redirect_file.state = "missing"
    /\ log' = Append(log, "warning: Redirect file not found")
    /\ mappings' = <<>>
    /\ pc' = "returned"
    /\ UNCHANGED <<entry, geoVars, crawlVars, pollVars, sheet, arcVars, mdVars, urlVars, parserVars, frameVars>>

LoadRedirectsReadFails ==
    /\ entry = "load_redirects_from_nginx"
    /\ pc = "exists"
    /\ redirect_file.state = "unreadable"
    /\ log' = Append(log, "error: Failed to read redirect file")
    /\ mappings' = <<>>
    /\ pc' = "returned"
    /\ UNCHANGED <<entry, geoVars, crawlVars, pollVars, sheet, arcVars, mdVars, urlVars, parserVars, frameVars>>

LoadRedirectsReadLines ==
    /\ entry = "load_redirects_from_nginx"
    /\ pc = "exists"
    /\ redirect_file.state = "ok"
    /\ lines' = redirect_file.content
    /\ i' = 0
    /\ parsed' = <<>>
    /\ pc' = "loop"
    /\ UNCHANGED <<entry, geoVars, crawlVars, pollVars, sheet, arcVars, mdVars, log, redirect_file, mappings, urlVars, frameVars>>

\* an iteration of the outer loop that leaves the index where it was
LoadRedirectsLoopIndexKept ==
    /\ entry = "load_redirects_from_nginx"
    /\ pc = "loop"
    /\ i < Len(lines)
    /\ LET st == ParserStep(lines, [i |-> i, mappings |-> parsed])
       IN  i' = i /\ parsed' = st.mappings
    /\ UNCHANGED <<entry, geoVars, crawlVars, pollVars, sheet, arcVars, mdVars, pc, log, redirect_file, lines, mappings, urlVars, frameVars>>

LoadRedirectsLoop ==
    /\ entry = "load_redirects_from_nginx"
    /\ pc = "loop"
    /\ i < Len(lines)
    /\ LET st == ParserStep(lines, [i |-> i, mappings |-> parsed])
       IN  i' = st.i /\ parsed' = st.mappings
    /\ UNCHANGED <<entry, geoVars, crawlVars, pollVars, sheet, arcVars, mdVars, pc, log, redirect_file, lines, mappings, urlVars, frameVars>>

LoadRedirectsReturn ==
    /\ entry = "load_redirects_from_nginx"
    /\ pc = "loop"
    /\ i >= Len(lines)
    /\ mappings' = FinalMappings(parsed)
    /\ pc' = "returned"
    /\ UNCHANGED <<entry, geoVars, crawlVars, pollVars, sheet, arcVars, mdVars, log, parserVars, urlVars, frameVars>>

\* ------------------------------------------------------------------------
\* main(): the cleaning pipeline, one stage per step
\* ------------------------------------------------------------------------
\* a test for a missing cell made with `not v`: true of a blank cell too
IsFalsyCell(v) == v.t = "none" \/ (v.t = "str" /\ strip(v.s) = <<>>)

\* pandas isna / isnull of a cell
isnull(v) == v.t = "none"

\* the audit column filled without the `not in df.columns` test
WithOriginalOverwritten(rows, columns) ==
    [k \in 1..Len(rows) |-> [rows[k] EXCEPT !.orig = rows[k].link]]

\* `if "Original Link URL" not in df.columns: df["Original Link URL"] = df["Link URL"]`
WithOriginal(rows, columns) ==
    IF "Original Link URL" \notin columns
    THEN [k \in 1..Len(rows) |-> [rows[k] EXCEPT !.orig = rows[k].link]] ELSE rows

\* the two `df["Link URL"].apply(...)` of lines 235-236 and 403-404
NormalizeLinks(rows) ==
    [k \in 1..Len(rows) |-> [rows[k] EXCEPT !.link = NormalizeCell(rows[k].link)]]

\* ApplyCanonical with a changed_mask that leaves out the `!=` comparison
ApplyCanonicalCountsAll(rows, normalized, canonical) ==
    [df |-> [k \in 1..Len(rows) |->
                [rows[k] EXCEPT !.canon = canonical[k], !.link = canonical[k]]],
     map_args |-> normalized,
     changed |-> SelectSeq([k \in 1..Len(rows) |-> k],
                           LAMBDA k : ~isnull(canonical[k]) /\ ~isnull(normalized[k]))]

\* apply_redirect_mappings_in_place, lines 248-257: the canonical column, the
\* rows logged as changed, and the Link URL column replaced
ApplyCanonical(rows, normalized, canonical) ==
    [df |-> [k \in 1..Len(rows) |->
                [rows[k] EXCEPT !.canon = canonical[k], !.link = canonical[k]]],
     map_args |-> normalized,
     changed |-> SelectSeq([k \in 1..Len(rows) |-> k],
                           LAMBDA k : /\ ~isnull(canonical[k])
                                      /\ ~isnull(normalized[k])
                                      /\ canonical[k] # normalized[k])]

ApplyNormalized(rows, normalized, table) ==
    ApplyCanonical(rows, normalized, [k \in 1..Len(normalized) |-> map_one(normalized[k], table)])

\* apply_redirect_mappings_in_place, lines 235-257
ApplyMappings(rows, table) ==
    ApplyNormalized(rows, [k \in 1..Len(rows) |-> NormalizeCell(rows[k].link)], table)

InitMain ==
    /\ entry = "main"
    /\ pc = "load_data"
    /\ redirect_file \in {NoFile, [state |-> "ok", content |-> <<>>]}
    /\ log = <<>> /\ mappings = <<>>
    /\ ParserIdle /\ UrlIdle /\ FrameIdle /\ sheet = NoSheet /\ ArcIdle /\ MdIdle
    /\ GeoIdle /\ CrawlIdle /\ PollIdle

\* clean_link_urls, apply_redirect_mappings_in_place and replace_specific_old
\* called on a loaded frame on their own, in any order and any number of
\* times, with one table of rules
InitUrlStages ==
    /\ entry = "url_stages"
    /\ pc = "stage"
    /\ \E frame \in StageFrames : df = frame.df /\ cols = frame.cols
    /\ mappings \in SampleTables
    /\ map_args = <<>> /\ changed = <<>> /\ output = None
    /\ log = <<>> /\ redirect_file = NoFile
    /\ ParserIdle /\ UrlIdle /\ sheet = NoSheet /\ ArcIdle /\ MdIdle
    /\ GeoIdle /\ CrawlIdle /\ PollIdle

\* a call of load_data of process_survey_feedback.py on a sheet
InitLoadData ==
    /\ entry \in {"load_data", "load_data_new"}
    /\ pc = "call"
    /\ sheet \in Sheets
    /\ ArcIdle /\ MdIdle
    /\ GeoIdle /\ CrawlIdle /\ PollIdle
    /\ log = <<>> /\ redirect_file = NoFile /\ mappings = <<>>
    /\ ParserIdle /\ UrlIdle /\ FrameIdle

CallLoadData ==
    /\ entry = "load_data"
    /\ pc = "call"
    /\ cols' = load_data(sheet.header, sheet.body).cols
    /\ df' = load_data(sheet.header, sheet.body).df
    /\ pc' = "returned"
    /\ UNCHANGED <<entry, geoVars, crawlVars, pollVars, sheet, arcVars, mdVars, log, mappings, map_args, changed, output, urlVars, parserVars>>

\* load_data of process_survey_feedback_new.py: the same without the test
\* `if len(raw) > 0`; raw.iloc[0] of a sheet with no row under the header
\* raises IndexError
CallLoadDataNew ==
    /\ entry \in {"load_data_new", "main_new"}
    /\ pc = "call"
    /\ IF sheet.body = <<>>
       THEN /\ pc' = "raised"
            /\ UNCHANGED <<df, cols>>
       ELSE /\ cols' = load_data(sheet.header, sheet.body).cols
            /\ df' = load_data(sheet.header, sheet.body).df
            /\ pc' = IF entry = "main_new" THEN "remove_missing_link" ELSE "returned"
    /\ UNCHANGED <<entry, geoVars, crawlVars, pollVars, sheet, arcVars, mdVars, log, mappings, map_args, changed, output, urlVars, parserVars>>

\* main of process_survey_feedback_new.py on a sheet: load_data, then the
\* three transforms, then to_excel; no exception is caught
InitMainNew ==
    /\ entry = "main_new"
    /\ pc = "call"
    /\ \E header \in Headers, lead \in LeadRows, frame \in NewFrames :
         sheet = [header |-> header, body |-> lead \o frame]
    /\ ArcIdle /\ MdIdle
    /\ GeoIdle /\ CrawlIdle /\ PollIdle
    /\ log = <<>> /\ redirect_file = NoFile /\ mappings = <<>>
    /\ ParserIdle /\ UrlIdle /\ FrameIdle

\* process_survey_feedback_new.py, remove_missing_link
new_remove_missing_link ==
    /\ entry = "main_new"
    /\ pc = "remove_missing_link"
    /\ IF "Link URL" \notin cols
       THEN /\ log' = Append(log, "error: Column 'Link URL' not found")
            /\ df' = df
       ELSE /\ log' = log
            /\ df' = SelectSeq(df, LAMBDA r : ~isnull(r.link))
    /\ pc' = "remove_q2_testing"
    /\ UNCHANGED <<entry, geoVars, crawlVars, pollVars, sheet, arcVars, mdVars, mappings, cols, map_args, changed, output, urlVars, parserVars>>

\* process_survey_feedback_new.py, remove_q2_testing: data['Q2'] is read
\* without a test of the columns and raises KeyError when there is no 'Q2'
new_remove_q2_testing ==
    /\ entry = "main_new"
    /\ pc = "remove_q2_testing"
    /\ IF "Q2" \notin cols
       THEN /\ pc' = "raised"
            /\ df' = df
       ELSE /\ pc' = "update_urls"
            /\ df' = SelectSeq(df, LAMBDA r : r.q2 # "testing")
    /\ UNCHANGED <<entry, geoVars, crawlVars, pollVars, sheet, arcVars, mdVars, log, mappings, cols, map_args, changed, output, urlVars, parserVars>>

\* process_survey_feedback_new.py, update_urls: clean_url of a cell that is
\* no string raises AttributeError
new_update_urls ==
    /\ entry = "main_new"
    /\ pc = "update_urls"
    /\ IF "Link URL" \notin cols
       THEN /\ log' = Append(log, "error: Column 'Link URL' not found")
            /\ df' = df
            /\ pc' = "write"
       ELSE IF \E k \in 1..Len(df) : ~isinstance_str(df[k].link)
       THEN /\ pc' = "raised"
            /\ UNCHANGED <<df, log>>
       ELSE /\ df' = [k \in 1..Len(df) |-> [df[k] EXCEPT !.link = Str(clean_url(df[k].link.s))]]
            /\ log' = log
            /\ pc' = "write"
    /\ UNCHANGED <<entry, geoVars, crawlVars, pollVars, sheet, arcVars, mdVars, mappings, cols, map_args, changed, output, urlVars, parserVars>>

\* process_survey_feedback_new.py, main, lines 120-124
new_to_excel ==
    /\ entry = "main_new"
    /\ pc = "write"
    /\ output' = [columns |-> cols, rows |-> df]
    /\ pc' = "done"
    /\ UNCHANGED <<entry, geoVars, crawlVars, pollVars, sheet, arcVars, mdVars, log, mappings, df, cols, map_args, changed, urlVars, parserVars>>

\* load_data in main: the header, the rows before the data and the data rows
\* of the sheet are inputs
LoadData ==
    /\ entry = "main"
    /\ pc = "load_data"
    /\ \E header \in Headers, lead \in LeadRows, frame \in Frames :
         /\ cols' = load_data(header, lead \o frame).cols
         /\ df' = load_data(header, lead \o frame).df
    /\ pc' = "remove_missing_link"
    /\ UNCHANGED <<entry, geoVars, crawlVars, pollVars, sheet, arcVars, mdVars, log, mappings, map_args, changed, output, urlVars, parserVars>>

remove_missing_link ==
    /\ entry = "main"
    /\ pc = "remove_missing_link"
    /\ IF "Link URL" \notin cols
       THEN /\ log' = Append(log, "error: Column 'Link URL' not found")
            /\ df' = df
       ELSE /\ log' = log
            /\ df' = SelectSeq(df, LAMBDA r : ~isnull(r.link))
    /\ pc' = "remove_q2_testing"
    /\ UNCHANGED <<entry, geoVars, crawlVars, pollVars, sheet, arcVars, mdVars, mappings, cols, map_args, changed, output, urlVars, parserVars>>

remove_q2_testing ==
    /\ entry = "main"
    /\ pc = "remove_q2_testing"
    /\ IF "Q2" \notin cols
       THEN /\ log' = Append(log, "warning: Column 'Q2' not found")
            /\ df' = df
       ELSE /\ log' = log
            /\ df' = SelectSeq(df, LAMBDA r : r.q2 # "testing")
    /\ pc' = "clean_link_urls"
    /\ UNCHANGED <<entry, geoVars, crawlVars, pollVars, sheet, arcVars, mdVars, mappings, cols, map_args, changed, output, urlVars, parserVars>>

\* the sheets of the model have no 'current_url' column
clean_link_urls ==
    /\ (entry = "main" /\ pc = "clean_link_urls") \/ entry = "url_stages"
    /\ cols' = IF "Link URL" \in cols THEN cols \cup {"Original Link URL"} ELSE cols
    /\ df' = IF "Link URL" \in cols
             THEN NormalizeLinks(WithOriginal(df, cols))
             ELSE df
    /\ pc' = IF entry = "main" THEN "redirects" ELSE pc
    /\ UNCHANGED <<entry, geoVars, crawlVars, pollVars, sheet, arcVars, mdVars, log, mappings, map_args, changed, output, urlVars, parserVars>>

\* main, lines 564-569: the file exists; its lines are an input of this step
LoadRedirects ==
    /\ entry = "main"
    /\ pc = "redirects"
    /\ redirect_file.state = "ok"
    /\ \E table \in SampleTables :
         /\ mappings' = table
         /\ pc' = IF table # <<>> THEN "apply" ELSE "replace_specific_old"
    /\ UNCHANGED <<entry, geoVars, crawlVars, pollVars, sheet, arcVars, mdVars, log, frameVars, urlVars, parserVars>>

\* main, lines 570-571: no file, canonicalization is skipped
SkipRedirects ==
    /\ entry = "main"
    /\ pc = "redirects"
    /\ redirect_file.state = "missing"
    /\ pc' = "replace_specific_old"
    /\ UNCHANGED <<entry, geoVars, crawlVars, pollVars, sheet, arcVars, mdVars, log, mappings, frameVars, urlVars, parserVars>>

apply_redirect_mappings_in_place ==
    /\ (entry = "main" /\ pc = "apply") \/ entry = "url_stages"
    /\ IF "Link URL" \notin cols
       THEN /\ log' = Append(log, "warning: No 'Link URL' column found")
            /\ UNCHANGED <<df, cols, map_args, changed>>
       ELSE LET result == ApplyMappings(WithOriginal(df, cols), mappings)
            IN  /\ map_args' = result.map_args
                /\ changed' = result.changed
                /\ df' = result.df
                /\ cols' = cols \cup {"Original Link URL", "Canonical Link URL"}
                /\ log' = log
    /\ pc' = IF entry = "main" THEN "replace_specific_old" ELSE pc
    /\ UNCHANGED <<entry, geoVars, crawlVars, pollVars, sheet, arcVars, mdVars, mappings, output, urlVars, parserVars>>

replace_specific_old ==
    /\ (entry = "main" /\ pc = "replace_specific_old") \/ entry = "url_stages"
    /\ df' = IF "Link URL" \in cols
             THEN [k \in 1..Len(df) |-> [df[k] EXCEPT !.link = ReplaceSpecificCell(df[k].link)]]
             ELSE df
    /\ pc' = IF entry = "main" THEN "exclude_bogus_responses" ELSE pc
    /\ UNCHANGED <<entry, geoVars, crawlVars, pollVars, sheet, arcVars, mdVars, log, mappings, cols, map_args, changed, output, urlVars, parserVars>>

\* df.rename(columns={candidate: "ResponseId"}) made as a drop of the column
DroppedColumn(columns, candidate) == columns \ {candidate}

\* _find_responseid_column, lines 328-329: the column found is renamed
RenamedColumn(columns, candidate) == (columns \ {candidate}) \cup {"ResponseId"}

\* main, lines 577-580, and exclude_bogus_responses: --exclude-file (not
\* given, a file that cannot be read, a file that lists R_bogus) is an input
\* of this step
exclude_bogus_responses ==
    /\ entry = "main"
    /\ pc = "exclude_bogus_responses"
    /\ \E exclude_file \in {"not given", "unreadable", "ok"} :
         IF exclude_file = "not given"
         THEN UNCHANGED <<df, cols, log>>
         ELSE IF exclude_file = "unreadable"
         THEN /\ log' = Append(log, "error: Error reading exclude file")
              /\ UNCHANGED <<df, cols>>
         ELSE IF cols \cap ResponseIdNames = {}
         THEN /\ log' = Append(log, "error: ResponseId column not found")
              /\ UNCHANGED <<df, cols>>
         ELSE /\ cols' = RenamedColumn(cols, CHOOSE c \in cols \cap ResponseIdNames : TRUE)
              /\ df' = SelectSeq(df, LAMBDA r : r.rid # "R_bogus")
              /\ log' = log
    /\ pc' = "scrub_emails_in_q2"
    /\ UNCHANGED <<entry, geoVars, crawlVars, pollVars, sheet, arcVars, mdVars, mappings, map_args, changed, output, urlVars, parserVars>>

scrub_emails_in_q2 ==
    /\ entry = "main"
    /\ pc = "scrub_emails_in_q2"
    /\ IF "Q2" \notin cols
       THEN /\ log' = Append(log, "info: Column 'Q2' not found")
            /\ df' = df
       ELSE /\ log' = log
            /\ df' = [k \in 1..Len(df) |->
                       [df[k] EXCEPT !.q2 = IF df[k].q2 = "email" THEN "text" ELSE df[k].q2]]
    /\ pc' = "geocode"
    /\ UNCHANGED <<entry, geoVars, crawlVars, pollVars, sheet, arcVars, mdVars, mappings, cols, map_args, changed, output, urlVars, parserVars>>

\* main, lines 586-589: --geocode is an input of this step; the cell values
\* of the new column are not part of the state
reverse_geocode_country_only ==
    /\ entry = "main"
    /\ pc = "geocode"
    /\ \E geocode \in BOOLEAN :
         IF ~geocode
         THEN UNCHANGED <<cols, log>>
         ELSE IF ~({"LocationLatitude", "LocationLongitude"} \subseteq cols)
         THEN /\ log' = Append(log, "warning: LocationLatitude or LocationLongitude not present")
              /\ cols' = cols
         ELSE /\ cols' = cols \cup {"Country"}
              /\ log' = log
    /\ pc' = "write"
    /\ UNCHANGED <<entry, geoVars, crawlVars, pollVars, sheet, arcVars, mdVars, mappings, df, map_args, changed, output, urlVars, parserVars>>

\* main, lines 592-600
WriteOutput ==
    /\ entry = "main"
    /\ pc = "write"
    /\ output' = [columns |-> cols, rows |-> df]
    /\ pc' = "done"
    /\ UNCHANGED <<entry, geoVars, crawlVars, pollVars, sheet, arcVars, mdVars, log, mappings, df, cols, map_args, changed, urlVars, parserVars>>

\* ------------------------------------------------------------------------
\* archive-docs.py, main(): one Markdown file of the walk per step
\* ------------------------------------------------------------------------
InitArchive ==
    /\ entry = "archive_docs"
    /\ pc = "walk"
    /\ includes_path \in IncludeDirs
    /\ doc_set \in DocSets
    /\ file_idx = 0
    /\ log_messages = <<>>
    /\ stats = [processed |-> 0, success |-> 0, errors |-> 0]
    /\ archive = <<>>
    /\ log = <<>> /\ redirect_file = NoFile /\ mappings = <<>>
    /\ ParserIdle /\ UrlIdle /\ FrameIdle /\ sheet = NoSheet /\ MdIdle
    /\ GeoIdle /\ CrawlIdle /\ PollIdle

\* main, lines 165-205, for the next file of the walk
ArchiveFile ==
    /\ entry = "archive_docs"
    /\ pc = "walk"
    /\ file_idx < Len(doc_set)
    /\ \E done \in {ProcessedFile(doc_set[file_idx + 1],
                                  expand_includes(strip_front_matter(doc_set[file_idx + 1].lines),
                                                  includes_path))} :
         /\ log_messages' = log_messages \o done.msgs
         /\ stats' = [processed |-> stats.processed + 1,
                      success |-> stats.success + done.success,
                      errors |-> stats.errors + done.errors]
         /\ archive' = Append(archive, done.file)
    /\ file_idx' = file_idx + 1
    /\ UNCHANGED <<entry, geoVars, crawlVars, pollVars, sheet, mdVars, pc, includes_path, doc_set, log, mappings, urlVars, parserVars,
                   frameVars>>

\* main, lines 207-217: the log file and the summary
FinishArchive ==
    /\ entry = "archive_docs"
    /\ pc = "walk"
    /\ file_idx = Len(doc_set)
    /\ pc' = "done"
    /\ UNCHANGED <<entry, geoVars, crawlVars, pollVars, sheet, arcVars, mdVars, log, mappings, urlVars, parserVars, frameVars>>

\* ------------------------------------------------------------------------
\* remove_metadata_keys.py, process_file called on one file, several times
\* ------------------------------------------------------------------------
InitProcessFile ==
    /\ entry = "process_file"
    /\ pc = "call"
    /\ file_content \in MarkdownFiles
    /\ calls = <<>>
    /\ log = <<>> /\ redirect_file = NoFile /\ mappings = <<>>
    /\ ParserIdle /\ UrlIdle /\ FrameIdle /\ sheet = NoSheet /\ ArcIdle
    /\ GeoIdle /\ CrawlIdle /\ PollIdle

\* process_file, lines 134-210
ProcessFile ==
    /\ entry = "process_file"
    /\ pc = "call"
    /\ Len(calls) < MaxCalls
    /\ \E done \in {process_file(file_content)} :
         /\ file_content' = done.content
         /\ calls' = Append(calls, done)
    /\ UNCHANGED <<entry, geoVars, crawlVars, pollVars, sheet, arcVars, pc, log, mappings, urlVars, parserVars, frameVars>>

\* ------------------------------------------------------------------------
\* Specification
\* ------------------------------------------------------------------------
\* ------------------------------------------------------------------------
\* process_survey_feedback.py, reverse_geocode_country_only, called on a
\* frame that has the two location columns
\* ------------------------------------------------------------------------
\* A cell of LocationLatitude or LocationLongitude: a number, in millionths
\* of a degree; an empty cell (NaN); a text that float() does not take.
Coord(v) == [t |-> "num", v |-> v]

NaN == [t |-> "nan", v |-> 0]

BadCoord == [t |-> "text", v |-> 0]

isna(cell) == cell.t = "nan"

\* round_coord, lines 464-468, with round_decimals = 5: the number in
\* hundred-thousandths of a degree (no sample cell lies half way between
\* two of them); None for a cell float() raises on
round_coord(cell) ==
    IF cell.t = "num" THEN [none |-> FALSE, v |-> (cell.v + 5) \div 10]
    ELSE [none |-> TRUE, v |-> 0]

\* lines 473-479 and 524-531: the row has a key
Locatable(row) ==
    /\ ~isna(row.lat) /\ ~isna(row.lon)
    /\ ~round_coord(row.lat).none /\ ~round_coord(row.lon).none

\* line 480, key = f"{rlat},{rlon}": the pair of the rounded numbers; the
\* text of a float gives the float back (lines 491-492)
KeyOf(row) == <<round_coord(row.lat).v, round_coord(row.lon).v>>

\* lines 455-462: the cache after the load; {} when there is no file or
\* when it cannot be read
LoadedCache(file) == IF file.state = "ok" THEN file.entries ELSE <<>>

KeysOf(rows) == [k \in 1..Len(rows) |-> KeyOf(rows[k])]

\* the same loop with the test `key not in cache` left out
to_lookup_all(rows, cache) == KeysOf(SelectSeq(rows, Locatable))

\* lines 470-483: the keys appended to to_lookup, one for each row that has
\* a key that is not in the cache
to_lookup(rows, cache) ==
    KeysOf(SelectSeq(rows, LAMBDA r : Locatable(r) /\ KeyOf(r) \notin DOMAIN cache))

\* what rg.search and pycountry give for a key
CountryAt(key) == IF key[1] < 2 THEN "Austria" ELSE "Brazil"

\* lines 496-506: cache[k] = country_name for the first n keys of key_list
WithResults(cache, keys, n) ==
    [k \in DOMAIN cache \cup {keys[j] : j \in 1..n} |->
        IF k \in {keys[j] : j \in 1..n} THEN CountryAt(k) ELSE cache[k]]

\* lines 510-516: json.dump of the cache into the file; open() can fail,
\* which leaves the file as it is, and the write can fail after open()
\* emptied the file
Persisted(file, cache, write) ==
    IF write = "ok" THEN [state |-> "ok", entries |-> cache]
    ELSE IF write = "open fails" THEN file
    ELSE [state |-> "unreadable", entries |-> <<>>]

\* lines 519-532: the Country column
country_col(rows, cache) ==
    [k \in 1..Len(rows) |->
        IF Locatable(rows[k]) /\ KeyOf(rows[k]) \in DOMAIN cache
        THEN cache[KeyOf(rows[k])] ELSE "None"]

GeocodeLog(file, failed, write) ==
    (IF file.state = "unreadable" THEN <<"warning: Could not read cache file">> ELSE <<>>)
    \o (IF failed THEN <<"error: Offline reverse_geocoder error">> ELSE <<>>)
    \o (IF write # "ok" THEN <<"warning: Failed to write geocode cache">> ELSE <<>>)

Geocoded(rows, file, loaded, keys, cache, failed, write) ==
    [run |-> [state |-> "returned", loaded |-> loaded, coord_list |-> keys,
              country_col |-> country_col(rows, cache), failed |-> failed,
              wrote |-> write = "ok"],
     file |-> Persisted(file, cache, write),
     log |-> GeocodeLog(file, failed, write)]

LookedUp(rows, file, loaded, keys, n, failed, write) ==
    Geocoded(rows, file, loaded, keys, WithResults(loaded, keys, n), failed, write)

\* the call when rg.search caches n results and then raises (failed) or
\* returns, and the write of the cache file ends as `write` says
GeocodeRun(rows, file, keys, n, failed, write) ==
    LookedUp(rows, file, LoadedCache(file), keys, n, failed, write)

GeoRows ==
    {[lat |-> Coord(11), lon |-> Coord(20)], [lat |-> Coord(14), lon |-> Coord(20)],
     [lat |-> Coord(26), lon |-> Coord(20)], [lat |-> NaN, lon |-> Coord(20)],
     [lat |-> Coord(11), lon |-> BadCoord]}

MaxGeoRows == 2

GeoFrames == UNION {[1..n -> GeoRows] : n \in 0..MaxGeoRows}

CacheFiles ==
    {NoCacheFile, [state |-> "unreadable", entries |-> <<>>], [state |-> "ok", entries |-> <<>>],
     [state |-> "ok", entries |-> (<<1, 2>> :> "Cached")],
     [state |-> "ok", entries |-> (<<1, 2>> :> "None")],
     [state |-> "ok", entries |-> (<<1, 2>> :> "Cached") @@ (<<9, 9>> :> "Other")]}

InitGeocode ==
    /\ entry = "reverse_geocode_country_only"
    /\ pc = "call"
    /\ geo_df \in GeoFrames
    /\ cache_file \in CacheFiles
    /\ geo_run = NoGeoRun
    /\ log = <<>> /\ redirect_file = NoFile /\ mappings = <<>>
    /\ ParserIdle /\ UrlIdle /\ FrameIdle /\ sheet = NoSheet /\ ArcIdle /\ MdIdle
    /\ CrawlIdle /\ PollIdle

\* lines 450-452 (the packages are not installed) and 454-535; the keys
\* handed to rg.search are to_lookup
CallReverseGeocode ==
    /\ entry = "reverse_geocode_country_only"
    /\ pc = "call"
    /\ \E installed \in BOOLEAN :
         IF ~installed
         THEN /\ geo_run' = [NoGeoRun EXCEPT !.state = "no packages"]
              /\ cache_file' = cache_file
              /\ log' = Append(log, "error: Offline geocoding packages not installed")
         ELSE \E keys \in {to_lookup(geo_df, LoadedCache(cache_file))} :
              \E n \in 0..Len(keys), failed \in BOOLEAN,
                 write \in {"ok", "open fails", "write fails"} :
                /\ n < Len(keys) => failed
                /\ (failed /\ n = Len(keys)) => keys = <<>>
                /\ \E done \in {GeocodeRun(geo_df, cache_file, keys, n, failed, write)} :
                     /\ geo_run' = done.run
                     /\ cache_file' = done.file
                     /\ log' = log \o done.log
    /\ pc' = "returned"
    /\ UNCHANGED <<entry, sheet, geo_df, crawlVars, pollVars, arcVars, mdVars, mappings,
                   urlVars, parserVars, frameVars>>

\* ------------------------------------------------------------------------
\* nginx-docs-page-scraper.py, get_pages
\* ------------------------------------------------------------------------
\* A URL is the name of its host followed by the characters after it:
\* <<"d", "/", "n">> is https://d/n.
rstrip(s, chars) ==
    IF \A k \in 1..Len(s) : s[k] \in chars THEN <<>>
    ELSE SubSeq(s, 1, Max({k \in 1..Len(s) : s[k] \notin chars}))

\* normalize_url of the scraper, line 13
strip_trailing_slash(url) == rstrip(url, {"/"})

\* urlparse(url).netloc and urlparse(url).path
NetlocOfPage(url) == SubSeq(url, 1, 1)

PathOfPage(url) == Before(Before(Tail(url), "#"), "?")

EXCLUDED_EXTENSIONS ==
    {<<".", "p", "n", "g">>, <<".", "j", "p", "g">>, <<".", "j", "p", "e", "g">>,
     <<".", "g", "i", "f">>, <<".", "s", "v", "g">>, <<".", "c", "s", "s">>, <<".", "j", "s">>,
     <<".", "j", "s", "o", "n">>, <<".", "y", "a", "m", "l">>, <<".", "y", "m", "l">>,
     <<".", "p", "d", "f">>, <<".", "z", "i", "p">>, <<".", "m", "p", "4">>,
     <<".", "w", "o", "f", "f">>, <<".", "t", "t", "f">>}

\* is_valid_webpage, lines 15-24
is_valid_webpage(url) ==
    \/ endswith(PathOfPage(url), <<"/">>)
    \/ ~Contains(PathOfPage(url), <<".">>)
    \/ \A ext \in EXCLUDED_EXTENSIONS : ~endswith(PathOfPage(url), ext)

\* is_valid_subpath, lines 26-36
is_valid_subpath(base, candidate) ==
    /\ NetlocOfPage(candidate) = NetlocOfPage(base)
    /\ startswith(PathOfPage(candidate), rstrip(PathOfPage(base), {"/"}) \o <<"/">>)

\* lines 67-72: the normalized links of a page that pass the three tests;
\* the links are absolute, urljoin gives them back as they are
ValidLinks(base, links) ==
    {u \in {strip_trailing_slash(l) : l \in links} :
        is_valid_subpath(base, u) /\ is_valid_webpage(u) /\ ~Contains(u, <<"#">>)}

\* requests.get: the answer of the site for a URL, 404 for a URL it has not
Response(pages, url) ==
    IF url \in DOMAIN pages THEN pages[url] ELSE [status |-> "404", links |-> {}]

PageBase == <<"d", "/", "n">>

PageA == <<"d", "/", "n", "/", "a">>

PageB == <<"d", "/", "n", "/", "b">>

\* what a page can link to: the two pages (with and without a final '/'),
\* the base, a path that only starts like the base, another host, a
\* fragment, an image
LinkSets ==
    {{}, {PageA \o <<"/">>, PageB},
     {PageA, PageBase, <<"d", "/", "n", "x">>, <<"e", "/", "n", "/", "a">>},
     {PageB \o <<"/">>, PageA \o <<"#", "s">>, <<"d", "/", "n", "/", "i", ".", "p", "n", "g">>}}

\* the answers of a site: a page that is not served has no links
Answers ==
    {[status |-> "200", links |-> l] : l \in LinkSets}
    \cup {[status |-> s, links |-> {}] : s \in {"404", "500"}}

Sites == [{PageBase, PageA, PageB} -> Answers]

InitGetPages ==
    /\ entry = "get_pages"
    /\ pc = "loop"
    /\ base_url \in {PageBase, PageBase \o <<"/">>}
    /\ site \in Sites
    /\ visited = {}
    /\ to_visit = {strip_trailing_slash(base_url)}
    /\ found_links = {}
    /\ requested = <<>>
    /\ log = <<>> /\ redirect_file = NoFile /\ mappings = <<>>
    /\ ParserIdle /\ UrlIdle /\ FrameIdle /\ sheet = NoSheet /\ ArcIdle /\ MdIdle
    /\ GeoIdle /\ PollIdle

\* one pass of `while to_visit`, lines 45-82: set.pop() takes any element;
\* a 404 (line 56) and an exception (raise_for_status on another error
\* status, line 60; caught at line 81) leave visited as it is
GetPagesVisit ==
    /\ entry = "get_pages"
    /\ pc = "loop"
    /\ \E current_url \in to_visit :
         IF current_url \in visited
         THEN /\ to_visit' = to_visit \ {current_url}
              /\ UNCHANGED <<visited, found_links, requested>>
         ELSE /\ requested' = Append(requested, current_url)
              /\ IF Response(site, current_url).status # "200"
                 THEN /\ to_visit' = to_visit \ {current_url}
                      /\ UNCHANGED <<visited, found_links>>
                 ELSE \E valid \in {ValidLinks(base_url, Response(site, current_url).links)} :
                        /\ visited' = visited \cup {current_url}
                        /\ to_visit' = (to_visit \ {current_url}) \cup (valid \ visited')
                        /\ found_links' = found_links \cup (valid \ {base_url})
    /\ UNCHANGED <<entry, pc, base_url, site, geoVars, pollVars, sheet, arcVars, mdVars, log,
                   mappings, urlVars, parserVars, frameVars>>

\* line 84: the worklist is empty
GetPagesReturn ==
    /\ entry = "get_pages"
    /\ pc = "loop"
    /\ to_visit = {}
    /\ pc' = "returned"
    /\ UNCHANGED <<entry, crawlVars, geoVars, pollVars, sheet, arcVars, mdVars, log, mappings,
                   urlVars, parserVars, frameVars>>

\* ------------------------------------------------------------------------
\* export_qualtrics_to_xlsx.py, main
\* ------------------------------------------------------------------------
POLL_INTERVAL_SECONDS == 3

POLL_TIMEOUT_SECONDS == 300

\* the seconds a poll request can take: a quick answer, and an answer that
\* comes after more than the whole timeout (requests.get is called without
\* a timeout of its own)
RequestSeconds == {1, 400}

\* what a poll can report: the status and the fileId of the "result", or a
\* response raise_for_status raises on
PollAnswers ==
    {[status |-> s, file_id |-> f] : s \in {"inProgress", "complete", "failed"}, f \in {"", "F"}}
    \cup {[status |-> "http error", file_id |-> ""]}

\* the loop with the test of line 65 left out
NeverTimedOut(seconds) == FALSE

\* wait_for_completion, line 65
TimedOut(seconds) == seconds > POLL_TIMEOUT_SECONDS

InitExport ==
    /\ entry = "export_qualtrics"
    /\ pc = "start_export"
    /\ elapsed = 0 /\ polls = 0 /\ last_poll = NoPoll /\ called = <<>> /\ error = "none"
    /\ log = <<>> /\ redirect_file = NoFile /\ mappings = <<>>
    /\ ParserIdle /\ UrlIdle /\ FrameIdle /\ sheet = NoSheet /\ ArcIdle /\ MdIdle
    /\ GeoIdle /\ CrawlIdle

\* start_export, lines 30-41: get_headers raises RuntimeError when the
\* token is not set, raise_for_status raises on an error status
StartExport ==
    /\ entry = "export_qualtrics"
    /\ pc = "start_export"
    /\ \E outcome \in {"started", "RuntimeError", "HTTPError"} :
         /\ pc' = IF outcome = "started" THEN "poll" ELSE "raised"
         /\ error' = IF outcome = "started" THEN "none" ELSE outcome
    /\ UNCHANGED <<entry, elapsed, polls, last_poll, called, geoVars, crawlVars, sheet, arcVars,
                   mdVars, log, mappings, urlVars, parserVars, frameVars>>

\* one pass of the loop of wait_for_completion, lines 48-68: the request,
\* the three tests in their order, and the sleep when none of them ends the
\* loop
PollExport ==
    /\ entry = "export_qualtrics"
    /\ pc = "poll"
    /\ \E seconds \in RequestSeconds, answer \in PollAnswers :
         /\ polls' = polls + 1
         /\ last_poll' = answer
         /\ IF answer.status = "http error"
            THEN /\ pc' = "raised" /\ error' = "HTTPError"
                 /\ elapsed' = elapsed + seconds
            ELSE IF answer.status = "complete" /\ answer.file_id # ""
            THEN /\ pc' = "download_file" /\ error' = error
                 /\ elapsed' = elapsed + seconds
            ELSE IF answer.status = "failed"
            THEN /\ pc' = "raised" /\ error' = "RuntimeError"
                 /\ elapsed' = elapsed + seconds
            ELSE IF TimedOut(elapsed + seconds)
            THEN /\ pc' = "raised" /\ error' = "TimeoutError"
                 /\ elapsed' = elapsed + seconds
            ELSE /\ pc' = "poll" /\ error' = error
                 /\ elapsed' = elapsed + seconds + POLL_INTERVAL_SECONDS
    /\ UNCHANGED <<entry, called, geoVars, crawlVars, sheet, arcVars, mdVars, log, mappings,
                   urlVars, parserVars, frameVars>>

\* the step of main after pc
NextExportStep(step) ==
    IF step = "download_file" THEN "extract_csv"
    ELSE IF step = "extract_csv" THEN "convert_csv_to_xlsx" ELSE "done"

\* main, lines 141-145: download_file, extract_csv and convert_csv_to_xlsx,
\* each of which can raise
ExportStep ==
    /\ entry = "export_qualtrics"
    /\ pc \in {"download_file", "extract_csv", "convert_csv_to_xlsx"}
    /\ called' = Append(called, pc)
    /\ \E raises \in BOOLEAN :
         /\ pc' = IF raises THEN "raised" ELSE NextExportStep(pc)
         /\ error' = IF raises THEN "Exception" ELSE error
    /\ UNCHANGED <<entry, elapsed, polls, last_poll, geoVars, crawlVars, sheet, arcVars, mdVars,
                   log, mappings, urlVars, parserVars, frameVars>>

Init ==
    \/ InitNormalizer
    \/ InitLoadRedirects
    \/ InitMain
    \/ InitUrlStages
    \/ InitLoadData
    \/ InitMainNew
    \/ InitArchive
    \/ InitProcessFile
    \/ InitGeocode
    \/ InitGetPages
    \/ InitExport

Next ==
    \/ CallNormalizeUrl
    \/ CallEnsureAbsoluteAndNormalize
    \/ PassResultBack
    \/ LoadRedirectsFileMissing
    \/ LoadRedirectsReadFails
    \/ LoadRedirectsReadLines
    \/ LoadRedirectsLoop
    \/ LoadRedirectsReturn
    \/ CallLoadData
    \/ CallLoadDataNew
    \/ new_remove_missing_link
    \/ new_remove_q2_testing
    \/ new_update_urls
    \/ new_to_excel
    \/ LoadData
    \/ remove_missing_link
    \/ remove_q2_testing
    \/ clean_link_urls
    \/ LoadRedirects
    \/ SkipRedirects
    \/ apply_redirect_mappings_in_place
    \/ replace_specific_old
    \/ exclude_bogus_responses
    \/ scrub_emails_in_q2
    \/ reverse_geocode_country_only
    \/ WriteOutput
    \/ ArchiveFile
    \/ FinishArchive
    \/ ProcessFile
    \/ CallReverseGeocode
    \/ GetPagesVisit
    \/ GetPagesReturn
    \/ StartExport
    \/ PollExport
    \/ ExportStep

Spec == Init /\ [][Next]_vars


\* ------------------------------------------------------------------------
\* Properties
\* ------------------------------------------------------------------------
\* C1: after apply_redirect_mappings_in_place, every row whose normalized
\* Link URL starts with the old path of at least one rule of the table
\* carries the rewrite made with the rule whose old path is the longest such
\* prefix, whatever the place of that rule in the file was.
C1_LongestPrefixWins ==
    (entry = "main" /\ pc = "replace_specific_old" /\ "Canonical Link URL" \in cols) =>
        \A k \in 1..Len(df) :
            (/\ isinstance_str(map_args[k])
             /\ \E n \in 1..Len(mappings) : startswith(map_args[k].s, mappings[n].old)) =>
                \E n \in 1..Len(mappings) :
                    /\ startswith(map_args[k].s, mappings[n].old)
                    /\ \A m \in 1..Len(mappings) :
                          startswith(map_args[k].s, mappings[m].old) =>
                              Len(mappings[m].old) <= Len(mappings[n].old)
                    /\ df[k].canon = MapWithRule(map_args[k], mappings[n])

\* the rules /a/b/ -> /x/ and /a/ -> /y/ are loaded, the shorter one first
\* in the file, and https://docs.nginx.com/a/b/c/ became https://docs.nginx.com/x/c/
C1_Witness ==
    /\ entry = "main" /\ pc = "replace_specific_old" /\ "Canonical Link URL" \in cols
    /\ Len(mappings) = 2
    /\ mappings[1] = [old |-> BaseUrl \o <<"/", "a", "/", "b", "/">>,
                      new |-> BaseUrl \o <<"/", "x", "/">>]
    /\ mappings[2] = [old |-> BaseUrl \o <<"/", "a", "/">>,
                      new |-> BaseUrl \o <<"/", "y", "/">>]
    /\ \E k \in 1..Len(df) :
         /\ map_args[k] = Str(BaseUrl \o <<"/", "a", "/", "b", "/", "c", "/">>)
         /\ df[k].canon = Str(BaseUrl \o <<"/", "x", "/", "c", "/">>)

\* C2: a string returned by normalize_url or by ensure_absolute_and_normalize
\* is returned unchanged when it is handed to the same function again.
C2_Idempotent ==
    (entry \in {"normalize_url", "ensure_absolute_and_normalize"} /\ pc = "returned_again") =>
        url_ret = url_arg

\* C3: every rule of the table returned by load_redirects_from_nginx has a
\* non-empty old path with a scheme and a host, and the length of the old
\* path never increases from one rule to the next.
C3_OldPathsAbsoluteAndSorted ==
    (entry = "load_redirects_from_nginx" /\ pc = "returned") =>
        /\ \A n \in 1..Len(mappings) :
              /\ mappings[n].old # <<>>
              /\ urlsplit(mappings[n].old, <<>>).scheme # <<>>
              /\ urlsplit(mappings[n].old, <<>>).netloc # <<>>
        /\ \A n \in 1..(Len(mappings) - 1) :
              Len(mappings[n].old) >= Len(mappings[n + 1].old)

\* the file holds the rule for /a before the rule for /a/b/, the table
\* returned holds them the other way round
C3_Witness ==
    /\ entry = "load_redirects_from_nginx" /\ pc = "returned"
    /\ lines = <<LineBlockOpener, LineReturn, LineBlockSameLine>>
    /\ Len(mappings) = 2
    /\ mappings[1].old = BaseUrl \o <<"/", "a", "/", "b", "/">>
    /\ mappings[2].old = BaseUrl \o <<"/", "a", "/">>

\* C4: the table returned by load_redirects_from_nginx holds no old path
\* twice; the new path of a rule is the one of the first directive of the
\* file for that old path, be it a location block or a two-token line, and
\* every old path of a directive is in the table.
C4_FirstOccurrenceWins ==
    (entry = "load_redirects_from_nginx" /\ pc = "returned" /\ redirect_file.state = "ok") =>
        /\ \A a, b \in 1..Len(mappings) : a # b => mappings[a].old # mappings[b].old
        /\ \A a \in 1..Len(mappings) :
              \E k \in 1..Len(parsed) :
                  /\ parsed[k] = mappings[a]
                  /\ \A j \in 1..(k - 1) : parsed[j].old # mappings[a].old
        /\ \A k \in 1..Len(parsed) :
              \E a \in 1..Len(mappings) : mappings[a].old = parsed[k].old

\* "/a/ /z/" comes before the block "location = /a { return 301 /y/...; }":
\* both name https://docs.nginx.com/a/, the table keeps /z/
C4_Witness ==
    /\ entry = "load_redirects_from_nginx" /\ pc = "returned"
    /\ lines = <<LineTwoToken, LineBlockOpener, LineReturn>>
    /\ Len(parsed) = 2
    /\ parsed[1].old = parsed[2].old
    /\ parsed[1].new # parsed[2].new
    /\ mappings = <<[old |-> BaseUrl \o <<"/", "a", "/">>, new |-> BaseUrl \o <<"/", "z", "/">>]>>

\* C5: a row whose normalized Link URL starts with the old path of a rule
\* gets the new path of a matching rule followed by the rest of the URL
\* after the old path.
C5_RewriteKeepsSuffix ==
    (entry = "main" /\ pc = "replace_specific_old" /\ "Canonical Link URL" \in cols) =>
        \A k \in 1..Len(df) :
            (/\ isinstance_str(map_args[k])
             /\ \E n \in 1..Len(mappings) : startswith(map_args[k].s, mappings[n].old)) =>
                \E n \in 1..Len(mappings) :
                    /\ startswith(map_args[k].s, mappings[n].old)
                    /\ df[k].canon =
                          Str(mappings[n].new \o From(map_args[k].s, Len(mappings[n].old) + 1))

C7_NormalizedShape ==
    (/\ entry \in {"normalize_url", "ensure_absolute_and_normalize"}
     /\ pc \in {"returned", "returned_again"}
     /\ isinstance_str(url_ret)) =>
        /\ \A p \in 1..Len(url_ret.s) : url_ret.s[p] \notin {"?", "#"}
        /\ ~Contains(urlsplit(url_ret.s, <<>>).path, <<"/", "/">>)
        /\ endswith(url_ret.s, <<"/">>)
        /\ ~endswith(url_ret.s, <<"/", "/">>)

\* "https://docs.nginx.com//?" came back as "https://docs.nginx.com/"
C7_Witness ==
    /\ entry = "normalize_url" /\ pc = "returned"
    /\ url_input = Str(BaseUrl \o <<"/", "/", "?">>)
    /\ url_ret = Str(BaseUrl \o <<"/">>)

\* C8: for a string that is not blank, ensure_absolute_and_normalize returns
\* a string with a scheme and a host.
C8_AlwaysAbsolute ==
    (/\ entry = "ensure_absolute_and_normalize" /\ pc = "returned"
     /\ isinstance_str(url_input) /\ strip(url_input.s) # <<>>) =>
        /\ isinstance_str(url_ret)
        /\ urlsplit(url_ret.s, <<>>).scheme # <<>>
        /\ urlsplit(url_ret.s, <<>>).netloc # <<>>

\* C9: normalize_url and ensure_absolute_and_normalize return None for an
\* argument that is no string or is blank; after clean_link_urls and after
\* apply_redirect_mappings_in_place the rows whose cell was no string or was
\* blank hold None, and the other rows hold a string.
C9_AbsentForBlank ==
    /\ (/\ entry \in {"normalize_url", "ensure_absolute_and_normalize"}
        /\ pc = "returned"
        /\ (~isinstance_str(url_input) \/ strip(url_input.s) = <<>>)) => url_ret = None
    /\ (/\ entry = "main"
        /\ pc \in {"redirects", "apply", "replace_specific_old"}
        /\ "Link URL" \in cols) =>
            \A k \in 1..Len(df) :
                IF ~isinstance_str(df[k].orig) \/ strip(df[k].orig.s) = <<>>
                THEN df[k].link = None
                ELSE isinstance_str(df[k].link)
    /\ (entry = "main" /\ pc = "replace_specific_old" /\ "Canonical Link URL" \in cols) =>
            \A k \in 1..Len(df) :
                IF ~isinstance_str(df[k].orig) \/ strip(df[k].orig.s) = <<>>
                THEN df[k].canon = None /\ map_args[k] = None
                ELSE isinstance_str(df[k].canon)

\* a sheet with a number cell and the cell "/a/b/c?q" went through
\* clean_link_urls and the applier: None for the first row, a URL for the second
C9_Witness ==
    /\ entry = "main" /\ pc = "replace_specific_old" /\ "Canonical Link URL" \in cols
    /\ Len(df) = 2
    /\ df[1].orig = NumCell /\ df[1].link = None /\ df[1].canon = None
    /\ df[2].orig = Str(<<"/", "a", "/", "b", "/", "c", "?", "q">>)
    /\ isinstance_str(df[2].link)

\* C10 (as amended): for a missing file load_redirects_from_nginx logs the
\* warning and returns the empty table; main with a missing file never runs
\* the applier, goes from each stage to the next one of the pipeline up to
\* the writing of the sheet, and writes each Link URL as normalization left
\* it, but for the fixed known-issues URL, which replace_specific_old rewrites.
C10_MissingFileNotFatal ==
    /\ []((entry = "load_redirects_from_nginx" /\ pc = "returned"
             /\ redirect_file.state = "missing")
            => (mappings = <<>> /\ log = <<"warning: Redirect file not found">>))
    /\ []((entry = "main" /\ redirect_file.state = "missing")
            => (pc # "apply" /\ "Canonical Link URL" \notin cols))
    /\ []((entry = "main" /\ redirect_file.state = "missing" /\ pc = "done")
            => (/\ output # None
                /\ \A k \in 1..Len(output.rows) :
                      output.rows[k].link =
                          ReplaceSpecificCell(NormalizeCell(output.rows[k].orig))))
    /\ [][(entry = "main" /\ redirect_file.state = "missing")
            => <<pc, pc'>> \in {<<"load_data", "remove_missing_link">>,
                                <<"remove_missing_link", "remove_q2_testing">>,
                                <<"remove_q2_testing", "clean_link_urls">>,
                                <<"clean_link_urls", "redirects">>,
                                <<"redirects", "replace_specific_old">>,
                                <<"replace_specific_old", "exclude_bogus_responses">>,
                                <<"exclude_bogus_responses", "scrub_emails_in_q2">>,
                                <<"scrub_emails_in_q2", "geocode">>,
                                <<"geocode", "write">>,
                                <<"write", "done">>}]_vars

\* the sheet was written without a redirect file, with the known-issues URL
\* rewritten in it
C10_Witness ==
    /\ entry = "main" /\ pc = "done" /\ redirect_file.state = "missing"
    /\ output # None
    /\ "Link URL" \in output.columns
    /\ \E k \in 1..Len(output.rows) :
         /\ output.rows[k].orig = Str(OldPat)
         /\ output.rows[k].link = Str(NewPat)

\* C10 (as stated): main with a missing file writes each Link URL as
\* normalization left it.
C10_OutputAsNormalized ==
    (entry = "main" /\ pc = "done" /\ redirect_file.state = "missing") =>
        \A k \in 1..Len(output.rows) :
            output.rows[k].link = NormalizeCell(output.rows[k].orig)

\* C11: when the outer loop of the parser takes a location opener that holds
\* no return directive, and the next location opener of the file follows it
\* with no return directive on the lines between them, the step appends no
\* rule and leaves the line index at or before that next opener, so that the
\* next opener is taken by the outer loop in its turn.
C11_BlockEndsAtNextOpener ==
    [][(/\ entry = "load_redirects_from_nginx" /\ pc = "loop" /\ i < Len(lines)
        /\ ~lines[i + 1].hash /\ lines[i + 1].loc # None /\ lines[i + 1].ret = None) =>
            \A n \in (i + 2)..Len(lines) :
                (/\ ~lines[n].hash /\ (lines[n].loc # None \/ lines[n].locsp)
                 /\ \A m \in (i + 2)..(n - 1) : lines[m].ret = None) =>
                    (parsed' = parsed /\ i' <= n - 1)]_vars

\* C12: the table returned by load_redirects_from_nginx is the table of the
\* same file with its comment lines (and blank lines) taken out, and also the
\* table of the file with the lines that match no directive form taken out:
\* such lines add no old path and no target to a rule and do not end the
\* parse.
C12_CommentsContributeNothing ==
    (entry = "load_redirects_from_nginx" /\ pc = "returned" /\ redirect_file.state = "ok") =>
        /\ mappings = load_redirects_from_nginx(SelectSeq(lines, LAMBDA l : ~l.hash))
        /\ mappings = load_redirects_from_nginx(SelectSeq(lines, LAMBDA l : l # LineBrace))

\* C13 (as amended): the 'Original Link URL' column is made by the first of
\* clean_link_urls and apply_redirect_mappings_in_place to run on a frame
\* without it, from the Link URL cells as they are at that moment, and once
\* the column is there none of the three URL stages changes a cell of it, in
\* any order and number of calls; in main, whose sheets are loaded without
\* that column, every row written holds its Link URL as loaded in it.
C13_OriginalKept ==
    /\ [][(entry \in {"main", "url_stages"} /\ "Original Link URL" \notin cols /\ "Original Link URL" \in cols') =>
              (Len(df') = Len(df) /\ \A k \in 1..Len(df) : df'[k].orig = df[k].link)]_vars
    /\ [][(entry = "url_stages" /\ "Original Link URL" \in cols) =>
              (/\ "Original Link URL" \in cols'
               /\ Len(df') = Len(df)
               /\ \A k \in 1..Len(df) : df'[k].orig = df[k].orig)]_vars
    /\ []((entry = "main" /\ "Original Link URL" \in cols) =>
              \A k \in 1..Len(df) : df[k].orig = df[k].loaded)
    /\ []((entry = "main" /\ pc = "done" /\ "Link URL" \in cols) =>
              (/\ "Original Link URL" \in output.columns
               /\ \A k \in 1..Len(output.rows) : output.rows[k].orig = output.rows[k].loaded))

\* main wrote a row whose Link URL was rewritten by a rule and whose
\* 'Original Link URL' is the cell "/a/b/c?q" as loaded
C13_Witness ==
    /\ entry = "main" /\ pc = "done"
    /\ "Canonical Link URL" \in output.columns
    /\ \E k \in 1..Len(output.rows) :
         /\ output.rows[k].loaded = Str(<<"/", "a", "/", "b", "/", "c", "?", "q">>)
         /\ output.rows[k].orig = output.rows[k].loaded
         /\ output.rows[k].link = Str(BaseUrl \o <<"/", "x", "/", "c", "/">>)

\* C13 (as stated): wherever the three URL stages have been applied, in any
\* order, an 'Original Link URL' cell that a stage has set holds the Link URL
\* of its row as loaded.
C13_OriginalAsLoaded ==
    (entry \in {"main", "url_stages"} /\ "Original Link URL" \in cols) =>
        \A k \in 1..Len(df) : df[k].orig # LoadedOriginal => df[k].orig = df[k].loaded

\* C14 (as amended): from one stage of main to the next, every row of the
\* frame is a row the frame held before, the rows stay in the order of their
\* loading, and every column name stays, but for the name of the ResponseId
\* column, which exclude_bogus_responses replaces by 'ResponseId'.
C14_RowsShrinkColumnsStay ==
    [][(entry = "main" /\ pc # "load_data") =>
          /\ \A k \in 1..Len(df') : \E j \in 1..Len(df) : df[j].row = df'[k].row
          /\ \A k \in 1..(Len(df') - 1) : df'[k].row < df'[k + 1].row
          /\ \A c \in cols :
                \/ c \in cols'
                \/ (/\ pc = "exclude_bogus_responses"
                    /\ c \in ResponseIdNames
                    /\ "ResponseId" \in cols')]_vars

\* the sheet with the column 'Response ID' and the rows R_bogus, R_keep was
\* written with the column 'ResponseId' and the second row only
C14_Witness ==
    /\ entry = "main" /\ pc = "done"
    /\ "ResponseId" \in output.columns /\ "Response ID" \notin output.columns
    /\ "Country" \in output.columns
    /\ Len(output.rows) = 1
    /\ output.rows[1].row = 2

\* C14 (as stated): from one stage of main to the next, every row of the
\* frame is a row the frame held before, in the same order, and no column
\* name is lost.
C14_RowsShrinkColumnsGrow ==
    [][(entry = "main" /\ pc # "load_data") =>
          /\ \A k \in 1..Len(df') : \E j \in 1..Len(df) : df[j].row = df'[k].row
          /\ \A k \in 1..(Len(df') - 1) : df'[k].row < df'[k + 1].row
          /\ cols \subseteq cols']_vars

\* C15: the step of remove_missing_link on a frame with a 'Link URL' column
\* leaves exactly the rows whose Link URL is not null: each row left is a row
\* of the frame before, with every cell as it was and a Link URL that is not
\* null, each such row of the frame before is left, and the rows left are in
\* the order of their loading.
C15_DropsExactlyNullLinks ==
    [][(entry = "main" /\ pc = "remove_missing_link" /\ "Link URL" \in cols) =>
          /\ \A k \in 1..Len(df') :
                /\ df'[k].link # None
                /\ \E j \in 1..Len(df) : df[j] = df'[k]
          /\ \A j \in 1..Len(df) :
                df[j].link # None => \E k \in 1..Len(df') : df'[k] = df[j]
          /\ \A k \in 1..(Len(df') - 1) : df'[k].row < df'[k + 1].row
          /\ cols' = cols]_vars

\* of a sheet with an empty Link URL cell in the first row and a blank string
\* in the second one, remove_missing_link left the second row
C15_Witness ==
    /\ entry = "main" /\ pc = "remove_q2_testing" /\ "Link URL" \in cols
    /\ Len(df) = 1
    /\ df[1].row = 2
    /\ df[1].link = Str(<<" ", " ">>)

\* C16: a call of load_data (of either script) on a sheet returns, and does
\* not raise; the columns returned are the first row of the sheet; when the
\* second row repeats the header the frame holds the rows after it, cell for
\* cell and in order; a sheet with the header row only gives the empty
\* frame; and in every case the data rows of the sheet are all in the frame,
\* in their order.
C16_LoadDataKeepsRows ==
    (entry \in {"load_data", "load_data_new"} /\ pc # "call") =>
        /\ pc = "returned"
        /\ cols = sheet.header
        /\ (sheet.body # <<>> /\ sheet.body[1] = RowRepeatedHeader) =>
              /\ Len(df) = Len(sheet.body) - 1
              /\ \A k \in 1..Len(df) :
                    /\ df[k].q2 = sheet.body[k + 1].q2
                    /\ df[k].rid = sheet.body[k + 1].rid
                    /\ df[k].loaded = IF "Link URL" \in cols THEN sheet.body[k + 1].link ELSE None
                    /\ df[k].link = df[k].loaded
        /\ sheet.body = <<>> => df = <<>>
        /\ LET IsData(r) == r.q2 \notin {"header", "subheading"}
           IN  /\ Len(SelectSeq(df, IsData)) = Len(SelectSeq(sheet.body, IsData))
               /\ \A k \in 1..Len(SelectSeq(df, IsData)) :
                     /\ SelectSeq(df, IsData)[k].q2 = SelectSeq(sheet.body, IsData)[k].q2
                     /\ SelectSeq(df, IsData)[k].rid = SelectSeq(sheet.body, IsData)[k].rid
                     /\ "Link URL" \in cols =>
                           SelectSeq(df, IsData)[k].link = SelectSeq(sheet.body, IsData)[k].link

\* ------------------------------------------------------------------------
\* C17
\* ------------------------------------------------------------------------
\* the include tokens of a line, or of a file, whose target is not a file
IsMissingToken(item, dir) == item.k = "include" /\ item.v \notin DOMAIN dir

RECURSIVE MissingTokens(_, _)
MissingTokens(file_lines, dir) ==
    IF file_lines = <<>> THEN <<>>
    ELSE SelectSeq(Head(file_lines), LAMBDA item : IsMissingToken(item, dir))
         \o MissingTokens(Tail(file_lines), dir)

\* the file with these tokens taken out and everything else kept
WithoutMissingTokens(file_lines, dir) ==
    [n \in 1..Len(file_lines) |->
        SelectSeq(file_lines[n], LAMBDA item : ~IsMissingToken(item, dir))]

\* the file the archiver is about to go through holds a missing include
NextFileHasMissingInclude ==
    /\ entry = "archive_docs"
    /\ pc = "walk"
    /\ file_idx < Len(doc_set)
    /\ doc_set[file_idx + 1].readable
    /\ MissingTokens(strip_front_matter(doc_set[file_idx + 1].lines), includes_path) # <<>>

\* what the archiver does with such a file
MissingIncludeHandled ==
    /\ log_messages' =
          log_messages
          \o [n \in 1..Len(MissingTokens(strip_front_matter(doc_set[file_idx + 1].lines), includes_path)) |->
                [text |-> "ERROR: Missing include",
                 file |-> MissingTokens(strip_front_matter(doc_set[file_idx + 1].lines), includes_path)[n].v]]
          \o <<[text |-> "Processed", file |-> "source"]>>
    /\ stats'.errors = stats.errors
          + Len(MissingTokens(strip_front_matter(doc_set[file_idx + 1].lines), includes_path))
    /\ archive'[file_idx + 1].written
    /\ archive'[file_idx + 1].text =
          Archived(expand_includes(
              WithoutMissingTokens(strip_front_matter(doc_set[file_idx + 1].lines), includes_path),
              includes_path).out)
    /\ file_idx' = file_idx + 1
    /\ pc' = "walk"
    /\ doc_set' = doc_set

\* C17: when the file the archiver goes through holds an include token
\* whose target file is missing, the step logs one "Missing include" error
\* for each such token and counts one error for each, logs no other error
\* (nothing is raised), writes the file with only these tokens taken out,
\* and goes on to the next file of the walk.
C17_MissingIncludeOnlyLogged ==
    [][NextFileHasMissingInclude => MissingIncludeHandled]_vars

\* ------------------------------------------------------------------------
\* C18
\* ------------------------------------------------------------------------
\* the names the include tokens of a file refer to
IncludesOf(file_lines) ==
    {file_lines[n][k].v : <<n, k>> \in
        {<<n, k>> \in (1..Len(file_lines)) \X (1..4) :
            k <= Len(file_lines[n]) /\ file_lines[n][k].k = "include"}}

\* the names reached from a set of names in at most n steps of inclusion
RECURSIVE IncludeClosure(_, _, _)
IncludeClosure(names, dir, n) ==
    IF n = 0 THEN names
    ELSE IncludeClosure(names \cup UNION {IncludesOf(dir[x]) : x \in names \cap DOMAIN dir},
                        dir, n - 1)

\* every include file referenced exists and none includes itself, directly
\* or through other include files
IncludesResolvable(file_lines, dir) ==
    /\ IncludeClosure(IncludesOf(file_lines), dir, Cardinality(DOMAIN dir)) \subseteq DOMAIN dir
    /\ \A x \in IncludeClosure(IncludesOf(file_lines), dir, Cardinality(DOMAIN dir)) :
         x \notin IncludeClosure(IncludesOf(dir[x]), dir, Cardinality(DOMAIN dir))

\* a file without its front matter: the block between a first line "---" and
\* the next line "---"
RECURSIVE AfterDelim(_)
AfterDelim(file_lines) ==
    IF file_lines = <<>> THEN <<>>
    ELSE IF Head(file_lines) = Delim THEN Tail(file_lines)
    ELSE AfterDelim(Tail(file_lines))

FrontMatterRemoved(file_lines) ==
    IF file_lines # <<>> /\ Head(file_lines) = Delim
    THEN AfterDelim(Tail(file_lines))
    ELSE file_lines

\* the expansion the claim describes: each token replaced in place by the
\* content of its file, front matter removed, expanded the same way
RECURSIVE FullyExpandedItems(_, _)
RECURSIVE FullyExpanded(_, _)
FullyExpandedItems(items, dir) ==
    IF items = <<>> THEN <<>>
    ELSE IF Head(items).k = "include"
    THEN Join(FullyExpanded(FrontMatterRemoved(dir[Head(items).v]), dir))
         \o FullyExpandedItems(Tail(items), dir)
    ELSE <<Head(items)>> \o FullyExpandedItems(Tail(items), dir)

FullyExpanded(file_lines, dir) ==
    [n \in 1..Len(file_lines) |-> FullyExpandedItems(file_lines[n], dir)]

\* C18: for every file the archiver went through whose include files all
\* exist and do not include themselves, the output of expand_includes on
\* the lines of the file holds no include token and is the file with each
\* token replaced in place by the content of its include file, front matter
\* removed and expanded the same way, the text around the tokens kept.
C18_IncludesFullyExpanded ==
    entry = "archive_docs" =>
        \A n \in 1..file_idx :
            (doc_set[n].readable
             /\ IncludesResolvable(strip_front_matter(doc_set[n].lines), includes_path))
            => /\ ~expand_includes(strip_front_matter(doc_set[n].lines), includes_path).raised
               /\ IncludesOf(expand_includes(strip_front_matter(doc_set[n].lines),
                                             includes_path).out) = {}
               /\ expand_includes(strip_front_matter(doc_set[n].lines), includes_path).out
                  = FullyExpanded(strip_front_matter(doc_set[n].lines), includes_path)

\* ------------------------------------------------------------------------
\* C19
\* ------------------------------------------------------------------------
\* C19: front-matter pruning is idempotent on files.  Every call of
\* process_file on a file after the first one removes no key, merges
\* nothing, does not open the file for writing and leaves its content as the
\* call before left it.
C19_SecondRunIsNoOp ==
    entry = "process_file" =>
        \A n \in 2..Len(calls) :
            /\ calls[n].removed_keys = <<>>
            /\ ~calls[n].had_categories
            /\ ~calls[n].had_doctypes
            /\ ~calls[n].opened
            /\ calls[n].content = calls[n - 1].content

\* a file from which the first call removed keys and merged categories, and
\* which the second call left alone
C19_Witness ==
    /\ entry = "process_file"
    /\ Len(calls) = 2
    /\ calls[1].opened
    /\ calls[1].removed_keys # <<>>
    /\ calls[1].had_categories
    /\ calls[2].outcome = "no changes"
    /\ file_content = calls[1].content

\* ------------------------------------------------------------------------
\* C20
\* ------------------------------------------------------------------------
\* the mapping holds a key of the deny list, or categories, or doctypes
HasRemovableKey(data) ==
    \/ \E n \in 1..Len(UNNEEDED_KEYS) : HasKey(data, UNNEEDED_KEYS[n])
    \/ HasKey(data, "categories")
    \/ HasKey(data, "doctypes")

\* what holds of a call of process_file that has just been made
WrittenOnlyWhenChanged(done, content_before, content_after) ==
    /\ done.opened =>
          /\ done.removed_keys # <<>> \/ done.had_categories \/ done.had_doctypes
          /\ done.kept # done.front
    /\ done.outcome \in {"no valid front matter", "not a dictionary", "YAML parse error"}
          => ~done.opened
    /\ ~HasRemovableKey(done.front) => ~done.opened
    /\ ~done.opened => content_after = content_before

TypeValues(data) ==
    IF HasKey(data, "type")
    THEN {to_list(ValueOf(data, "type"))[n] : n \in 1..Len(to_list(ValueOf(data, "type")))}
    ELSE {}

\* the mapping stored in the front matter block of a file
StoredFrontMatter(file_text) == safe_load(SplitOnDashes(file_text, <<>>, <<>>)[2]).data

\* C23: after a call of process_file that went through a file whose front
\* matter is a mapping, the 'type' field stored in the file holds only
\* values of VALID_TYPE_VALUES, and every allowed value the field held
\* before the call is still in it.
C23_StoredTypeIsValid ==
    entry = "process_file" =>
        \A n \in 1..Len(calls) :
            calls[n].outcome \in {"written", "no changes"}
            => /\ TypeValues(StoredFrontMatter(calls[n].content)) \subseteq VALID_TYPE_VALUES
               /\ (TypeValues(calls[n].front) \cap VALID_TYPE_VALUES)
                     \subseteq TypeValues(StoredFrontMatter(calls[n].content))

\* ------------------------------------------------------------------------
\* C24
\* ------------------------------------------------------------------------
\* the files strip_front_matter was called on while the archiver went
\* through its first n files: these files and the include files they name
StrippedFiles(n) ==
    {doc_set[k].lines : k \in {m \in 1..n : doc_set[m].readable}}
    \cup {includes_path[x] : x \in
            UNION {IncludesOf(doc_set[k].lines) \cap DOMAIN includes_path : k \in 1..n}}

\* C24: strip_front_matter removes the front-matter block at the start of
\* a file and nothing else: the lines after the closing delimiter are
\* returned unchanged and in order, a later line "---" of the body included,
\* and a file with no front matter is returned unchanged.
C24_OnlyFrontMatterStripped ==
    entry = "archive_docs" =>
        \A file_lines \in StrippedFiles(file_idx) :
            strip_front_matter(file_lines) = FrontMatterRemoved(file_lines)

\* ------------------------------------------------------------------------
\* C25
\* ------------------------------------------------------------------------
\* the files of the walk for which an error was logged: those not written
\* and those that hold an include token whose file is missing
FilesWithErrors ==
    {n \in 1..file_idx :
        \/ ~archive[n].written
        \/ MissingTokens(strip_front_matter(doc_set[n].lines), includes_path) # <<>>}

\* C25: at the end of an archive run the figure 'Files with errors' is the
\* number of files for which an error was logged, 'Successfully processed'
\* counts files for which no error was logged, and the two add up to 'Total
\* files processed'.
C25_CountersConsistent ==
    (entry = "archive_docs" /\ pc = "done") =>
        /\ stats.errors = Cardinality(FilesWithErrors)
        /\ stats.success <= file_idx - Cardinality(FilesWithErrors)
        /\ stats.success + stats.errors = stats.processed

\* ------------------------------------------------------------------------
\* C29
\* ------------------------------------------------------------------------
\* C29: expand_includes returns an expanded result for every set of
\* include files, a set in which an include file includes itself directly
\* or through other include files included, and the archiver writes every
\* file it could read.
C29_ExpansionAlwaysReturns ==
    entry = "archive_docs" =>
        \A n \in 1..file_idx :
            doc_set[n].readable
            => /\ ~expand_includes(strip_front_matter(doc_set[n].lines), includes_path).raised
               /\ archive[n].written

\* ------------------------------------------------------------------------
\* C28
\* ------------------------------------------------------------------------
\* C28: every iteration of the outer loop of the rule parser leaves the
\* line index strictly greater than it found it and not beyond the end of
\* the file, the iteration on a block opener included, so no line is gone
\* through twice and the loop is left after at most one iteration per line.
C28_IndexStrictlyIncreases ==
    [][(entry = "load_redirects_from_nginx" /\ pc = "loop" /\ pc' = "loop")
        => (i < i' /\ i' <= Len(lines) /\ lines' = lines)]_vars

\* the index has gone from a block opener over a brace line to the line
\* that holds the return of the block
C28_Witness ==
    /\ entry = "load_redirects_from_nginx"
    /\ pc = "loop"
    /\ Len(lines) = 3
    /\ lines[1] = LineBlockOpener
    /\ lines[2] = LineBrace
    /\ lines[3] = LineReturn
    /\ i = 2
    /\ Len(parsed) = 1

\* ------------------------------------------------------------------------
\* C30
\* ------------------------------------------------------------------------
\* C30: when apply_redirect_mappings_in_place has run on a frame with a
\* 'Link URL' column (the output has a 'Canonical Link URL' column), every
\* row of the output written by main has the same value in 'Link URL' and in
\* 'Canonical Link URL': no stage after the canonicalization changes one of
\* the two columns without the other.
C30_LinkEqualsCanonical ==
    (entry = "main" /\ pc = "done" /\ "Canonical Link URL" \in output.columns) =>
        \A k \in 1..Len(output.rows) : output.rows[k].link = output.rows[k].canon

\* ------------------------------------------------------------------------
\* C21
\* ------------------------------------------------------------------------
\* the transforms of the two pipelines that read a named column, with the
\* position of main at which each is called
ColumnStages ==
    {[entry |-> "main", pc |-> "remove_missing_link", needs |-> {"Link URL"}],
     [entry |-> "main", pc |-> "remove_q2_testing", needs |-> {"Q2"}],
     [entry |-> "main", pc |-> "clean_link_urls", needs |-> {"Link URL"}],
     [entry |-> "main", pc |-> "apply", needs |-> {"Link URL"}],
     [entry |-> "main", pc |-> "replace_specific_old", needs |-> {"Link URL"}],
     [entry |-> "main", pc |-> "exclude_bogus_responses", needs |-> {"ResponseId"}],
     [entry |-> "main", pc |-> "scrub_emails_in_q2", needs |-> {"Q2"}],
     [entry |-> "main", pc |-> "geocode", needs |-> {"LocationLatitude", "LocationLongitude"}],
     [entry |-> "main_new", pc |-> "remove_missing_link", needs |-> {"Link URL"}],
     [entry |-> "main_new", pc |-> "remove_q2_testing", needs |-> {"Q2"}],
     [entry |-> "main_new", pc |-> "update_urls", needs |-> {"Link URL"}]}

\* main is about to call the transform and the column it reads is absent
\* (the ResponseId column under any of the names the code accepts)
AtStageWithoutColumn(st) ==
    /\ entry = st.entry /\ pc = st.pc
    /\ IF st.needs = {"ResponseId"}
       THEN cols \cap ResponseIdNames = {}
       ELSE ~(st.needs \subseteq cols)

\* exclude_bogus_responses and the geocoding are called only when main is
\* given --exclude-file and --geocode
OptionalStage(st) == st.pc \in {"exclude_bogus_responses", "geocode"}

\* C21: a step of main at a transform whose column is absent leaves the
\* rows and the columns of the table as they are, adds one message to the
\* log (or none, at a transform that the command line did not ask for),
\* raises nothing, and main goes on to the stage after it.
C21_AbsentColumnSkipped ==
    [][\A st \in ColumnStages :
         AtStageWithoutColumn(st) =>
            /\ df' = df /\ cols' = cols
            /\ pc' \notin {"raised", pc}
            /\ \/ Len(log') = Len(log) + 1
               \/ OptionalStage(st) /\ log' = log]_vars

\* ------------------------------------------------------------------------
\* C22
\* ------------------------------------------------------------------------
GeocodeReturned ==
    entry = "reverse_geocode_country_only" /\ pc = "returned" /\ geo_run.state = "returned"

\* C22: when reverse_geocode_country_only has returned, no key of the cache
\* loaded at the start is among the coordinates handed to rg.search; every
\* row whose key is in the loaded cache has the cached value in 'Country';
\* and when the cache file was written, every entry of the loaded cache is
\* in it with the value it had, whether or not the lookup failed.
C22_CachedKeysKept ==
    GeocodeReturned =>
        /\ \A j \in 1..Len(geo_run.coord_list) : geo_run.coord_list[j] \notin DOMAIN geo_run.loaded
        /\ \A k \in 1..Len(geo_df) :
              (Locatable(geo_df[k]) /\ KeyOf(geo_df[k]) \in DOMAIN geo_run.loaded) =>
                 geo_run.country_col[k] = geo_run.loaded[KeyOf(geo_df[k])]
        /\ geo_run.wrote =>
              /\ cache_file.state = "ok"
              /\ \A key \in DOMAIN geo_run.loaded :
                    /\ key \in DOMAIN cache_file.entries
                    /\ cache_file.entries[key] = geo_run.loaded[key]

\* a frame with a cached and an uncached pair, a cache with an entry for no
\* row of the frame, a lookup that failed, and the cache file written
C22_Witness ==
    /\ GeocodeReturned
    /\ DOMAIN geo_run.loaded = {<<1, 2>>, <<9, 9>>}
    /\ Len(geo_df) = 2
    /\ KeyOf(geo_df[1]) = <<1, 2>> /\ Locatable(geo_df[1])
    /\ KeyOf(geo_df[2]) = <<3, 2>> /\ Locatable(geo_df[2])
    /\ geo_run.coord_list = <<(<<3, 2>>)>>
    /\ geo_run.failed /\ geo_run.wrote
    /\ geo_run.country_col = <<"Cached", "None">>

\* ------------------------------------------------------------------------
\* C26
\* ------------------------------------------------------------------------
\* C26: in a crawl of get_pages no URL is handed to requests.get twice,
\* whatever the site answered for it.
C26_RequestedAtMostOnce ==
    entry = "get_pages" =>
        \A j, k \in 1..Len(requested) : requested[j] = requested[k] => j = k

\* ------------------------------------------------------------------------
\* C27
\* ------------------------------------------------------------------------
\* the last poll reported 'complete' together with a file id
ExportCompleted == last_poll.status = "complete" /\ last_poll.file_id # ""

\* main is at or past download_file
PastTheWait ==
    called # <<>> \/ pc \in {"download_file", "extract_csv", "convert_csv_to_xlsx", "done"}

\* the polling loop ended with an exception and the last poll reported
\* neither a complete export nor 'failed'
LoopEndedUndecided ==
    /\ pc = "raised" /\ polls > 0 /\ called = <<>>
    /\ ~ExportCompleted /\ last_poll.status # "failed"

\* download_file, extract_csv and convert_csv_to_xlsx run only after a poll
\* that reported 'complete' with a file id; a poll that reports 'failed'
\* ends the run with RuntimeError; the loop goes on to another poll only
\* while the time since its start has not passed the timeout, so that it
\* makes no more than POLL_TIMEOUT_SECONDS / POLL_INTERVAL_SECONDS + 2 polls;
\* and a TimeoutError is raised only after the timeout has passed
PollingIsBounded ==
    /\ PastTheWait => ExportCompleted
    /\ last_poll.status = "failed" => (pc = "raised" /\ error = "RuntimeError")
    /\ pc = "poll" => elapsed <= POLL_TIMEOUT_SECONDS + POLL_INTERVAL_SECONDS
    /\ polls <= (POLL_TIMEOUT_SECONDS \div POLL_INTERVAL_SECONDS) + 2
    /\ (pc = "raised" /\ error = "TimeoutError") => elapsed > POLL_TIMEOUT_SECONDS

====
